---- MODULE Spec2Model ----
(***************************************************************************)
(* Go concurrency programs of the repository, as state machines.           *)
(*                                                                         *)
(*   SpecWP   workerPool(): three workers ranging over a buffered tasks    *)
(*            channel, a producer goroutine, a goroutine that closes the   *)
(*            results channel after wg.Wait, and the collecting caller.    *)
(*   SpecGS   the graceful-shutdown program: a signal-handler goroutine    *)
(*            that cancels the context, three ticker workers selecting on  *)
(*            ctx.Done(), and main, which sleeps and announces the end.    *)
(*   Spec     the cancellable worker pool: the worker() of the notes       *)
(*            (select on ctx.Done() and the jobs channel, a per-job        *)
(*            context, deferred wg.Done()) driven by Start, Submit and     *)
(*            Shutdown callers.                                            *)
(*   SpecOnce the sync.Once demo of syncOnce.go: goroutines that add        *)
(*            themselves to a WaitGroup, call once.Do(initialize) and      *)
(*            print initialized, and main, which waits and announces.      *)
(*   SpecResilient, SpecRetry   goroutines calling ResilientOnce.Do and    *)
(*            RetryOnce.Do with a function that returns nil, returns an    *)
(*            error or panics.                                             *)
(*   SpecCAS  the lock-free increment of the notes: goroutines in a load   *)
(*            and compare-and-swap loop on one counter.                    *)
(*   SpecSem  a buffered channel used as a semaphore: the backpressure     *)
(*            snippet with its final fill loop, and the request limiter.   *)
(*   SpecHTTP the HTTP handler demo: handler and processRequest joined by  *)
(*            the request context and a result channel of capacity 1.      *)
(*                                                                         *)
(* A buffered Go channel is a FIFO sequence with a capacity and a closed   *)
(* flag; a goroutine is a program counter plus its locals.                 *)
(***************************************************************************)
EXTENDS Integers, Sequences, FiniteSets, TLC

\* ------------------------------------------------- sizes of workerPool
\* for i := 0; i < 3; i++  (number of workers started by workerPool)
NumWorkers == 3
\* for i := 0; i < 100; i++ in the producer, scaled down
NumTasks == 4
\* make(chan Task, 10), scaled down
TaskCap == 2
\* make(chan Result, 10), scaled down
ResultCap == 1

TaskIds == 0 .. (NumTasks - 1)
NoTask == -1

VARIABLES
    \* ---- workerPool (part_007)
    mainPc,        \* position of workerPool(): "spawn","goProducer","goCloser","collect","returned"
    spawnI,        \* loop counter i of the worker-spawning loop
    wg,            \* sync.WaitGroup counter
    tasks,         \* buffer of chan Task
    tasksClosed,   \* close(tasks) has happened
    results,       \* buffer of chan Result (the task IDs of the results)
    resultsClosed, \* close(results) has happened
    wpc,           \* one entry per started worker goroutine: its position
    wtask,         \* one entry per started worker goroutine: its loop variable task
    prodPc,        \* producer goroutine: "idle","loop","close","done"
    prodI,         \* producer loop counter i
    closerPc,      \* closer goroutine: "idle","wait","close","done"
    collected,     \* how often each result ID was printed by the collecting loop
    dequeued,      \* history: task IDs in the order the workers received them
    execCount,     \* history: how often each task was processed
    queuedAtClose, \* history: the buffer of tasks at close(tasks)
    \* ---- graceful shutdown (contextWithCancel.go, second program)
    gsMainPc,      \* main: "goSig","spawn","waitDone","sleep","goodbye","deferCancel","exited"
    gsI,           \* loop counter i of the worker-starting loop (1..3)
    gsCtx,         \* the context made by context.WithCancel: "active" or "cancelled"
    sigCh,         \* number of signals buffered in sigCh (capacity 1)
    sigPc,         \* signal-handler goroutine: "idle","recv","cancel","done"
    gpc,           \* one entry per started worker: "select","processing","cleanup","returned"
    tick,          \* one entry per started worker: a tick is buffered in ticker.C
    cancelCalls,   \* history: number of cancel() calls that have returned
    \* ---- cancellable worker pool (notes/standard_structure.md worker)
    poolState,     \* controller: "Created","Running","Draining","Stopped"
    ctx,           \* the pool-wide cancellation signal: "active" or "cancelled"
    jobs,          \* buffer of the jobs channel (the task queue)
    jobsClosed,    \* the jobs channel has been closed
    poolWg,        \* the completion barrier (sync.WaitGroup counter)
    jpc,           \* one entry per worker: "select","handler","done","panicked"
    job,           \* one entry per worker: the job it received
    jobCtx,        \* one entry per worker: its per-job context: "none","active","cancelled","timedOut"
    callPc,        \* per caller: "idle","enqueue","blocked","shutdownWait"
    callJob,       \* per caller: the task it is enqueueing
    nextId,        \* identifier of the next submitted task
    crashed,       \* the process has exited on an unrecovered panic
    handed,        \* history: how often each job was handed to a worker
    lastRet,       \* what the step just taken returned to its caller (NoRes: nothing)
    ran,           \* history: the jobs a handler was called for
    faulted,       \* history: the jobs whose handler returned an error or panicked
    reports,       \* the failure and drop reports emitted ([id, kind]); worker() has no
                   \* statement that emits one, so no action changes it
    \* ---- sync.Once demo (syncOnce.go)
    soMainPc,      \* main: "spawn","wait","blocked","woken","println","printed","exited"
    soI,           \* loop counter i of the goroutine-starting loop
    soWg,          \* sync.WaitGroup counter
    soWaiting,     \* main is registered in the WaitGroup as a waiter
    soPanicked,    \* the process has ended on a panic raised by sync.WaitGroup
    onceDone,      \* once.done
    onceM,         \* once.m: the goroutine holding it, or Unlocked
    initialized,   \* the package variable initialized
    initCalls,     \* history: how often initialize was called
    opc,           \* per goroutine: "unstarted","add","do","lock","f","store","unlock",
                   \* "println","wgDone","release","finished"
    seen,          \* per goroutine: what it printed: "none","true","false"
    \* ---- ResilientOnce (contextWithTimeout.go)
    roPc,          \* per goroutine calling Do: "do","lock","f","record","recover","store",
                   \* "unlock","rlock","read","returned" ("panicked": a panic left Do)
    roDone,        \* r.once.done
    roM,           \* r.once.m: the goroutine holding it, or Unlocked
    roInitErr,     \* r.initErr: "nil", "err" or "panic"
    roSucceeded,   \* r.succeeded
    roReaders,     \* number of read locks held on r.mu
    roRet,         \* per goroutine: what Do returned: "none","nil","error"
    roCalls,       \* history: how often f was invoked
    roOutcome,     \* history: what the last invocation of f did ("none" before)
    \* ---- RetryOnce (contextWithTimeout.go)
    rtPc,          \* per goroutine calling Do: "unstarted","lock","check","loop","f","sleep","unlock",
                   \* "returned" ("panicked": a panic left Do)
    rtMu,          \* r.mu: the goroutine holding it, or Unlocked
    rtInitialized, \* r.initialized
    maxRetries,    \* r.maxRetries
    rtAttempt,     \* per goroutine: the loop variable attempt
    rtRet,         \* per goroutine: what Do returned: "none","nil","error"
    rtCalls,       \* history: how often f was invoked
    rtSucc,        \* history: how often f returned nil
    rtInvoked,     \* history, per goroutine: how often its Do invoked f
    \* ---- CAS-loop increment (notes/atmoics.md)
    casMainPc,     \* main: "spawn","wait","println","returned"
    casI,          \* loop counter i of the goroutine-starting loop
    casWg,         \* sync.WaitGroup counter
    counter,       \* the shared counter
    cpc,           \* per goroutine: "unstarted","load","cas","wgDone","done"
    old,           \* per goroutine: its local old
    casPrinted,    \* what main printed as the counter (NotPrinted before)
    \* ---- channel semaphores (notes/standard_structure.md, notes/gomaxprocs.md)
    semMainPc,     \* the goroutine of the snippet: "range","go","fill","done"
    semNext,       \* number of jobs the range loop has received
    sem,           \* number of elements buffered in sem
    semFill,       \* loop counter i of the final loop
    spc,           \* per job goroutine: "unstarted","process","release","done"
    semAcq,        \* history, per job: sends on sem made for it
    semRel,        \* history, per job: receives from sem made by its goroutine
    limiter,       \* number of elements buffered in limiter
    lpc,           \* per request: "arrive","handle","release","done","rejected"
    limAcq,        \* history, per request: sends on limiter made by its handler
    limRel,        \* history, per request: receives from limiter made by its handler
    \* ---- HTTP handler demo (syncOnce.go, second program)
    hctx,          \* per request: its context: "active" or "cancelled"
    hpc,           \* per request, handler: "go","select","return","returned"
    hResp,         \* per request: what the handler wrote: "none","completed","cancelled"
    result,        \* per request: buffer of the result channel
    ppc,           \* per request, processRequest: "unstarted","loop","send","done"
    pI,            \* per request: loop counter i of processRequest
    pExit          \* per request: how processRequest ended: "none","stopped","sent"

wpVars == <<mainPc, spawnI, wg, tasks, tasksClosed, results, resultsClosed,
            wpc, wtask, prodPc, prodI, closerPc, collected, dequeued, execCount,
            queuedAtClose>>

gsVars == <<gsMainPc, gsI, gsCtx, sigCh, sigPc, gpc, tick, cancelCalls>>

poolVars == <<poolState, ctx, jobs, jobsClosed, poolWg, jpc, job, jobCtx,
              callPc, callJob, nextId, crashed, handed, lastRet, ran, faulted,
              reports>>

soVars == <<soMainPc, soI, soWg, soWaiting, soPanicked, onceDone, onceM,
            initialized, initCalls, opc, seen>>

roVars == <<roPc, roDone, roM, roInitErr, roSucceeded, roReaders, roRet, roCalls,
            roOutcome>>

rtVars == <<rtPc, rtMu, rtInitialized, maxRetries, rtAttempt, rtRet, rtCalls, rtSucc,
            rtInvoked>>

casVars == <<casMainPc, casI, casWg, counter, cpc, old, casPrinted>>

semVars == <<semMainPc, semNext, sem, semFill, spc, semAcq, semRel, limiter, lpc,
             limAcq, limRel>>

httpVars == <<hctx, hpc, hResp, result, ppc, pI, pExit>>

vars == <<wpVars, gsVars, poolVars, soVars, roVars, rtVars, casVars, semVars,
          httpVars>>

\* what the workerPool program leaves alone
notWP == <<gsVars, poolVars, soVars, roVars, rtVars,
           casVars, semVars, httpVars>>
\* what the graceful-shutdown program leaves alone
notGS == <<wpVars, poolVars, soVars, roVars, rtVars,
           casVars, semVars, httpVars>>
\* what the worker pool leaves alone
notPool == <<wpVars, gsVars, soVars, roVars, rtVars,
             casVars, semVars, httpVars>>
\* what the sync.Once demo leaves alone
notSO == <<wpVars, gsVars, poolVars, roVars, rtVars,
           casVars, semVars, httpVars>>
\* what the goroutines calling ResilientOnce.Do leave alone
notRO == <<wpVars, gsVars, poolVars, soVars, rtVars,
           casVars, semVars, httpVars>>
\* what the goroutines calling RetryOnce.Do leave alone
notRT == <<wpVars, gsVars, poolVars, soVars, roVars,
           casVars, semVars, httpVars>>
\* what the CAS-loop program leaves alone
notCAS == <<wpVars, gsVars, poolVars, soVars, roVars,
            rtVars, semVars, httpVars>>
\* what the semaphore snippets leave alone
notSem == <<wpVars, gsVars, poolVars, soVars, roVars,
            rtVars, casVars, httpVars>>
\* what the HTTP handler demo leaves alone
notHTTP == <<wpVars, gsVars, poolVars, soVars, roVars,
             rtVars, casVars, semVars>>

\* ------------------------------------------------------- channel semantics
\* A send on a buffered channel proceeds when the buffer has room.
CanSend(buf, cap) == Len(buf) < cap
\* A receive proceeds when the buffer holds a value.
CanRecv(buf) == Len(buf) > 0
\* A receive on a closed and drained channel returns at once with ok = false.
RecvClosed(buf, closed) == closed /\ Len(buf) = 0

Workers == 1 .. Len(wpc)

\* ------------------------------------------------------------- workerPool
WPInit ==
    /\ mainPc = "spawn"
    /\ spawnI = 0
    /\ wg = 0
    /\ tasks = <<>>
    /\ tasksClosed = FALSE
    /\ results = <<>>
    /\ resultsClosed = FALSE
    /\ wpc = <<>>
    /\ wtask = <<>>
    /\ prodPc = "idle"
    /\ prodI = 0
    /\ closerPc = "idle"
    /\ collected = [t \in TaskIds |-> 0]
    /\ dequeued = <<>>
    /\ execCount = [t \in TaskIds |-> 0]
    /\ queuedAtClose = <<>>

\* mutant: the worker is started without wg.Add(1)
SpawnWorkerNoAdd ==
    /\ mainPc = "spawn"
    /\ spawnI < NumWorkers
    /\ wpc' = Append(wpc, "range")
    /\ wtask' = Append(wtask, NoTask)
    /\ spawnI' = spawnI + 1
    /\ UNCHANGED <<mainPc, wg, tasks, tasksClosed, results, resultsClosed,
                   prodPc, prodI, closerPc, collected, dequeued, execCount, queuedAtClose>>
    /\ UNCHANGED notWP

\* mutant: the loop condition reads i <= 3, so one worker too many is started
SpawnWorkerOffByOne ==
    /\ mainPc = "spawn"
    /\ spawnI <= NumWorkers
    /\ wg' = wg + 1
    /\ wpc' = Append(wpc, "range")
    /\ wtask' = Append(wtask, NoTask)
    /\ spawnI' = spawnI + 1
    /\ UNCHANGED <<mainPc, tasks, tasksClosed, results, resultsClosed,
                   prodPc, prodI, closerPc, collected, dequeued, execCount, queuedAtClose>>
    /\ UNCHANGED notWP

\* for i := 0; i < 3; i++ { wg.Add(1); go worker(tasks, results, &wg) }
SpawnWorker ==
    /\ mainPc = "spawn"
    /\ spawnI < NumWorkers
    /\ wg' = wg + 1
    /\ wpc' = Append(wpc, "range")
    /\ wtask' = Append(wtask, NoTask)
    /\ spawnI' = spawnI + 1
    /\ UNCHANGED <<mainPc, tasks, tasksClosed, results, resultsClosed,
                   prodPc, prodI, closerPc, collected, dequeued, execCount, queuedAtClose>>
    /\ UNCHANGED notWP

\* mutant: the caller goes on before the last worker is started
SpawnDoneEarly ==
    /\ mainPc = "spawn"
    /\ ~(spawnI < NumWorkers - 1)
    /\ mainPc' = "goProducer"
    /\ UNCHANGED <<spawnI, wg, tasks, tasksClosed, results, resultsClosed,
                   wpc, wtask, prodPc, prodI, closerPc, collected, dequeued, execCount, queuedAtClose>>
    /\ UNCHANGED notWP

\* the spawning loop ends when i reaches 3
SpawnDone ==
    /\ mainPc = "spawn"
    /\ ~(spawnI < NumWorkers)
    /\ mainPc' = "goProducer"
    /\ UNCHANGED <<spawnI, wg, tasks, tasksClosed, results, resultsClosed,
                   wpc, wtask, prodPc, prodI, closerPc, collected, dequeued, execCount, queuedAtClose>>
    /\ UNCHANGED notWP

\* go func() { for ... tasks <- Task{...}; close(tasks) }()
GoProducer ==
    /\ mainPc = "goProducer"
    /\ mainPc' = "goCloser"
    /\ prodPc' = "loop"
    /\ UNCHANGED <<spawnI, wg, tasks, tasksClosed, results, resultsClosed,
                   wpc, wtask, prodI, closerPc, collected, dequeued, execCount, queuedAtClose>>
    /\ UNCHANGED notWP

\* go func() { wg.Wait(); close(results) }()
GoCloser ==
    /\ mainPc = "goCloser"
    /\ mainPc' = "collect"
    /\ closerPc' = "wait"
    /\ UNCHANGED <<spawnI, wg, tasks, tasksClosed, results, resultsClosed,
                   wpc, wtask, prodPc, prodI, collected, dequeued, execCount, queuedAtClose>>
    /\ UNCHANGED notWP

\* mutant: the send does not wait for room in the buffer
ProducerSendNoBlock ==
    /\ prodPc = "loop"
    /\ prodI < NumTasks
    /\ ~tasksClosed
    /\ tasks' = Append(tasks, prodI)
    /\ prodI' = prodI + 1
    /\ UNCHANGED <<mainPc, spawnI, wg, tasksClosed, results, resultsClosed,
                   wpc, wtask, prodPc, closerPc, collected, dequeued, execCount, queuedAtClose>>
    /\ UNCHANGED notWP

\* tasks <- Task{ID: i, Data: "task data"}; i++
ProducerSend ==
    /\ prodPc = "loop"
    /\ prodI < NumTasks
    /\ ~tasksClosed
    /\ CanSend(tasks, TaskCap)
    /\ tasks' = Append(tasks, prodI)
    /\ prodI' = prodI + 1
    /\ UNCHANGED <<mainPc, spawnI, wg, tasksClosed, results, resultsClosed,
                   wpc, wtask, prodPc, closerPc, collected, dequeued, execCount, queuedAtClose>>
    /\ UNCHANGED notWP

\* the producer loop ends when i reaches 100
ProducerLoopEnd ==
    /\ prodPc = "loop"
    /\ ~(prodI < NumTasks)
    /\ prodPc' = "close"
    /\ UNCHANGED <<mainPc, spawnI, wg, tasks, tasksClosed, results, resultsClosed,
                   wpc, wtask, prodI, closerPc, collected, dequeued, execCount, queuedAtClose>>
    /\ UNCHANGED notWP

\* close(tasks)
ProducerClose ==
    /\ prodPc = "close"
    /\ tasksClosed' = TRUE
    /\ queuedAtClose' = tasks
    /\ prodPc' = "done"
    /\ UNCHANGED <<mainPc, spawnI, wg, tasks, results, resultsClosed,
                   wpc, wtask, prodI, closerPc, collected, dequeued, execCount>>
    /\ UNCHANGED notWP

\* mutant: the receive takes the newest buffered task, not the oldest
WorkerRecvLast(w) ==
    /\ wpc[w] = "range"
    /\ CanRecv(tasks)
    /\ wtask' = [wtask EXCEPT ![w] = tasks[Len(tasks)]]
    /\ tasks' = SubSeq(tasks, 1, Len(tasks) - 1)
    /\ dequeued' = Append(dequeued, tasks[Len(tasks)])
    /\ wpc' = [wpc EXCEPT ![w] = "process"]
    /\ UNCHANGED <<mainPc, spawnI, wg, tasksClosed, results, resultsClosed,
                   prodPc, prodI, closerPc, collected, execCount, queuedAtClose>>
    /\ UNCHANGED notWP

\* for task := range tasks: a task is received from the head of the buffer
WorkerRecv(w) ==
    /\ wpc[w] = "range"
    /\ CanRecv(tasks)
    /\ wtask' = [wtask EXCEPT ![w] = Head(tasks)]
    /\ tasks' = Tail(tasks)
    /\ dequeued' = Append(dequeued, Head(tasks))
    /\ wpc' = [wpc EXCEPT ![w] = "process"]
    /\ UNCHANGED <<mainPc, spawnI, wg, tasksClosed, results, resultsClosed,
                   prodPc, prodI, closerPc, collected, execCount, queuedAtClose>>
    /\ UNCHANGED notWP

\* mutant: the loop ends as soon as the buffer is empty, closed or not
WorkerRangeEndOnEmpty(w) ==
    /\ wpc[w] = "range"
    /\ Len(tasks) = 0
    /\ wpc' = [wpc EXCEPT ![w] = "defer"]
    /\ UNCHANGED <<mainPc, spawnI, wg, tasks, tasksClosed, results, resultsClosed,
                   wtask, prodPc, prodI, closerPc, collected, dequeued, execCount, queuedAtClose>>
    /\ UNCHANGED notWP

\* mutant: the loop ends as soon as the channel is closed, drained or not
WorkerRangeEndOnClose(w) ==
    /\ wpc[w] = "range"
    /\ tasksClosed
    /\ wpc' = [wpc EXCEPT ![w] = "defer"]
    /\ UNCHANGED <<mainPc, spawnI, wg, tasks, tasksClosed, results, resultsClosed,
                   wtask, prodPc, prodI, closerPc, collected, dequeued, execCount, queuedAtClose>>
    /\ UNCHANGED notWP

\* for task := range tasks: the loop ends when tasks is closed and drained
WorkerRangeEnd(w) ==
    /\ wpc[w] = "range"
    /\ RecvClosed(tasks, tasksClosed)
    /\ wpc' = [wpc EXCEPT ![w] = "defer"]
    /\ UNCHANGED <<mainPc, spawnI, wg, tasks, tasksClosed, results, resultsClosed,
                   wtask, prodPc, prodI, closerPc, collected, dequeued, execCount, queuedAtClose>>
    /\ UNCHANGED notWP

\* // Process task
WorkerProcess(w) ==
    /\ wpc[w] = "process"
    /\ execCount' = [execCount EXCEPT ![wtask[w]] = @ + 1]
    /\ wpc' = [wpc EXCEPT ![w] = "send"]
    /\ UNCHANGED <<mainPc, spawnI, wg, tasks, tasksClosed, results, resultsClosed,
                   wtask, prodPc, prodI, closerPc, collected, dequeued, queuedAtClose>>
    /\ UNCHANGED notWP

\* results <- Result{ID: task.ID, Value: "processed"}
WorkerSend(w) ==
    /\ wpc[w] = "send"
    /\ ~resultsClosed
    /\ CanSend(results, ResultCap)
    /\ results' = Append(results, wtask[w])
    /\ wtask' = [wtask EXCEPT ![w] = NoTask]
    /\ wpc' = [wpc EXCEPT ![w] = "range"]
    /\ UNCHANGED <<mainPc, spawnI, wg, tasks, tasksClosed, resultsClosed,
                   prodPc, prodI, closerPc, collected, dequeued, execCount, queuedAtClose>>
    /\ UNCHANGED notWP

\* a send on a closed channel panics
WorkerSendPanic(w) ==
    /\ wpc[w] = "send"
    /\ resultsClosed
    /\ wpc' = [wpc EXCEPT ![w] = "panic"]
    /\ UNCHANGED <<mainPc, spawnI, wg, tasks, tasksClosed, results, resultsClosed,
                   wtask, prodPc, prodI, closerPc, collected, dequeued, execCount, queuedAtClose>>
    /\ UNCHANGED notWP

\* defer wg.Done()
WorkerDone(w) ==
    /\ wpc[w] = "defer"
    /\ wg' = wg - 1
    /\ wpc' = [wpc EXCEPT ![w] = "done"]
    /\ UNCHANGED <<mainPc, spawnI, tasks, tasksClosed, results, resultsClosed,
                   wtask, prodPc, prodI, closerPc, collected, dequeued, execCount, queuedAtClose>>
    /\ UNCHANGED notWP

\* wg.Wait() returns when the counter is zero
CloserWait ==
    /\ closerPc = "wait"
    /\ wg = 0
    /\ closerPc' = "close"
    /\ UNCHANGED <<mainPc, spawnI, wg, tasks, tasksClosed, results, resultsClosed,
                   wpc, wtask, prodPc, prodI, collected, dequeued, execCount, queuedAtClose>>
    /\ UNCHANGED notWP

\* close(results)
CloserClose ==
    /\ closerPc = "close"
    /\ resultsClosed' = TRUE
    /\ closerPc' = "done"
    /\ UNCHANGED <<mainPc, spawnI, wg, tasks, tasksClosed, results,
                   wpc, wtask, prodPc, prodI, collected, dequeued, execCount, queuedAtClose>>
    /\ UNCHANGED notWP

\* for result := range results { println(result.ID, result.Value) }
Collect ==
    /\ mainPc = "collect"
    /\ CanRecv(results)
    /\ collected' = [collected EXCEPT ![Head(results)] = @ + 1]
    /\ results' = Tail(results)
    /\ UNCHANGED <<mainPc, spawnI, wg, tasks, tasksClosed, resultsClosed,
                   wpc, wtask, prodPc, prodI, closerPc, dequeued, execCount, queuedAtClose>>
    /\ UNCHANGED notWP

\* the collecting loop ends when results is closed and drained
CollectEnd ==
    /\ mainPc = "collect"
    /\ RecvClosed(results, resultsClosed)
    /\ mainPc' = "returned"
    /\ UNCHANGED <<spawnI, wg, tasks, tasksClosed, results, resultsClosed,
                   wpc, wtask, prodPc, prodI, closerPc, collected, dequeued, execCount, queuedAtClose>>
    /\ UNCHANGED notWP

WPWorker(w) ==
    \/ WorkerRecv(w)
    \/ WorkerRangeEnd(w)
    \/ WorkerProcess(w)
    \/ WorkerSend(w)
    \/ WorkerSendPanic(w)
    \/ WorkerDone(w)

WPNext ==
    \/ SpawnWorker
    \/ SpawnDone
    \/ GoProducer
    \/ GoCloser
    \/ ProducerSend
    \/ ProducerLoopEnd
    \/ ProducerClose
    \/ \E w \in Workers : WPWorker(w)
    \/ CloserWait
    \/ CloserClose
    \/ Collect
    \/ CollectEnd

\* ------------------------------------------------------- graceful shutdown
\* for i := 1; i <= 3; i++ { go worker(ctx, i) }
GSWorkers == 3
SigCap == 1

GSStarted == 1 .. Len(gpc)

\* mutant: cancel closes the done channel without a guard, so a second call
\* panics with "close of closed channel"
cancelUnguarded(c) == IF c = "active" THEN "cancelled" ELSE "panic"

\* cancel(): the first call cancels the context, a later call does nothing
cancel(c) == IF c = "active" THEN "cancelled" ELSE c

\* <-ctx.Done() can proceed
Done(c) == c = "cancelled"

GSInit ==
    /\ gsMainPc = "goSig"
    /\ gsI = 1
    /\ gsCtx = "active"
    /\ sigCh = 0
    /\ sigPc = "idle"
    /\ gpc = <<>>
    /\ tick = <<>>
    /\ cancelCalls = 0

\* the process lives until main returns
GSAlive == gsMainPc # "exited"

\* the operating system delivers SIGINT or SIGTERM; signal.Notify does not
\* block: the signal is dropped when sigCh is full
Signal ==
    /\ GSAlive
    /\ sigCh < SigCap
    /\ sigCh' = sigCh + 1
    /\ UNCHANGED <<gsMainPc, gsI, gsCtx, sigPc, gpc, tick, cancelCalls>>
    /\ UNCHANGED notGS

\* go func() { sig := <-sigCh; ...; cancel() }()
GoSigHandler ==
    /\ gsMainPc = "goSig"
    /\ gsMainPc' = "spawn"
    /\ sigPc' = "recv"
    /\ UNCHANGED <<gsI, gsCtx, sigCh, gpc, tick, cancelCalls>>
    /\ UNCHANGED notGS

\* sig := <-sigCh
SigRecv ==
    /\ GSAlive
    /\ sigPc = "recv"
    /\ sigCh > 0
    /\ sigCh' = sigCh - 1
    /\ sigPc' = "cancel"
    /\ UNCHANGED <<gsMainPc, gsI, gsCtx, gpc, tick, cancelCalls>>
    /\ UNCHANGED notGS

\* cancel()  // Trigger shutdown
SigCancel ==
    /\ GSAlive
    /\ sigPc = "cancel"
    /\ gsCtx' = cancel(gsCtx)
    /\ cancelCalls' = cancelCalls + 1
    /\ sigPc' = "done"
    /\ UNCHANGED <<gsMainPc, gsI, sigCh, gpc, tick>>
    /\ UNCHANGED notGS

\* go worker(ctx, i); the worker creates its ticker
GSStartWorker ==
    /\ gsMainPc = "spawn"
    /\ gsI <= GSWorkers
    /\ gpc' = Append(gpc, "select")
    /\ tick' = Append(tick, FALSE)
    /\ gsI' = gsI + 1
    /\ UNCHANGED <<gsMainPc, gsCtx, sigCh, sigPc, cancelCalls>>
    /\ UNCHANGED notGS

\* the worker-starting loop ends
GSStartDone ==
    /\ gsMainPc = "spawn"
    /\ ~(gsI <= GSWorkers)
    /\ gsMainPc' = "waitDone"
    /\ UNCHANGED <<gsI, gsCtx, sigCh, sigPc, gpc, tick, cancelCalls>>
    /\ UNCHANGED notGS

\* <-ctx.Done()  // Wait for shutdown signal
GSWaitDone ==
    /\ gsMainPc = "waitDone"
    /\ Done(gsCtx)
    /\ gsMainPc' = "sleep"
    /\ UNCHANGED <<gsI, gsCtx, sigCh, sigPc, gpc, tick, cancelCalls>>
    /\ UNCHANGED notGS

\* time.Sleep(2 * time.Second): nothing but time orders main after the workers
GSSleep ==
    /\ gsMainPc = "sleep"
    /\ gsMainPc' = "goodbye"
    /\ UNCHANGED <<gsI, gsCtx, sigCh, sigPc, gpc, tick, cancelCalls>>
    /\ UNCHANGED notGS

\* fmt.Println("All workers stopped. Goodbye!")
GSGoodbye ==
    /\ gsMainPc = "goodbye"
    /\ gsMainPc' = "deferCancel"
    /\ UNCHANGED <<gsI, gsCtx, sigCh, sigPc, gpc, tick, cancelCalls>>
    /\ UNCHANGED notGS

\* defer cancel() runs as main returns, and the process exits
GSDeferCancel ==
    /\ gsMainPc = "deferCancel"
    /\ gsCtx' = cancel(gsCtx)
    /\ cancelCalls' = cancelCalls + 1
    /\ gsMainPc' = "exited"
    /\ UNCHANGED <<gsI, sigCh, sigPc, gpc, tick>>
    /\ UNCHANGED notGS

\* the runtime timer sends on ticker.C (capacity 1) and drops the tick when
\* the buffer is full; a stopped ticker sends nothing
Tick(w) ==
    /\ GSAlive
    /\ gpc[w] # "returned"
    /\ ~tick[w]
    /\ tick' = [tick EXCEPT ![w] = TRUE]
    /\ UNCHANGED <<gsMainPc, gsI, gsCtx, sigCh, sigPc, gpc, cancelCalls>>
    /\ UNCHANGED notGS

\* select: case <-ctx.Done()
GSWorkerDone(w) ==
    /\ GSAlive
    /\ gpc[w] = "select"
    /\ Done(gsCtx)
    /\ gpc' = [gpc EXCEPT ![w] = "cleanup"]
    /\ UNCHANGED <<gsMainPc, gsI, gsCtx, sigCh, sigPc, tick, cancelCalls>>
    /\ UNCHANGED notGS

\* select: case <-ticker.C
GSWorkerTick(w) ==
    /\ GSAlive
    /\ gpc[w] = "select"
    /\ tick[w]
    /\ tick' = [tick EXCEPT ![w] = FALSE]
    /\ gpc' = [gpc EXCEPT ![w] = "processing"]
    /\ UNCHANGED <<gsMainPc, gsI, gsCtx, sigCh, sigPc, cancelCalls>>
    /\ UNCHANGED notGS

\* fmt.Printf("Worker %d: Processing...\n", id), then the loop goes round
GSWorkerProcess(w) ==
    /\ GSAlive
    /\ gpc[w] = "processing"
    /\ gpc' = [gpc EXCEPT ![w] = "select"]
    /\ UNCHANGED <<gsMainPc, gsI, gsCtx, sigCh, sigPc, tick, cancelCalls>>
    /\ UNCHANGED notGS

\* the cleanup (prints, time.Sleep(500 * time.Millisecond)), then return;
\* the deferred ticker.Stop() runs
GSWorkerCleanup(w) ==
    /\ GSAlive
    /\ gpc[w] = "cleanup"
    /\ gpc' = [gpc EXCEPT ![w] = "returned"]
    /\ UNCHANGED <<gsMainPc, gsI, gsCtx, sigCh, sigPc, tick, cancelCalls>>
    /\ UNCHANGED notGS

GSWorker(w) ==
    \/ GSWorkerDone(w)
    \/ GSWorkerTick(w)
    \/ GSWorkerProcess(w)
    \/ GSWorkerCleanup(w)

GSNext ==
    \/ Signal
    \/ GoSigHandler
    \/ SigRecv
    \/ SigCancel
    \/ GSStartWorker
    \/ GSStartDone
    \/ GSWaitDone
    \/ GSSleep
    \/ GSGoodbye
    \/ GSDeferCancel
    \/ \E w \in GSStarted : Tick(w)
    \/ \E w \in GSStarted : GSWorker(w)

\* ------------------------------------------------- cancellable worker pool
\* The worker is the worker() of notes/standard_structure.md; its callers
\* (Start, Submit, Shutdown) are the pool controller of the specification.
PoolSize == 2
QueueCap == 1
MaxJobs == 2

\* the threads of the host program that call Start, Submit and Shutdown
Callers == {"c1", "c2"}
\* a job is its identifier; its Type and Data matter only through what the
\* handler lookup and the handler do with them, which is chosen when they run
NoJob == -1
JobIds == 0 .. (MaxJobs - 1)

PoolWorkers == 1 .. Len(jpc)

\* the caller is inside Enqueue: about to look at the queue, or blocked on it
InEnqueue(c) == callPc[c] \in {"enqueue", "blocked"}

\* what a call returned: the operation and its error (nil on success)
NoRes == <<"none", "none">>
Ret(op, err) == <<op, err>>

\* mutant: the per-job context is made from context.Background(), not from ctx
WithTimeoutBackground(parent) == "active"

\* context.WithTimeout(ctx, 30*time.Second): a child of an already cancelled
\* parent is cancelled from the start
WithTimeout(parent) == IF Done(parent) THEN "cancelled" ELSE "active"

\* cancelling a context cancels the contexts derived from it
cancelChildren(children) ==
    [w \in DOMAIN children |-> IF children[w] = "active" THEN "cancelled" ELSE children[w]]

PoolInit ==
    /\ poolState = "Created"
    /\ ctx = "active"
    /\ jobs = <<>>
    /\ jobsClosed = FALSE
    /\ poolWg = 0
    /\ jpc = <<>>
    /\ job = <<>>
    /\ jobCtx = <<>>
    /\ callPc = [c \in Callers |-> "idle"]
    /\ callJob = [c \in Callers |-> NoJob]
    /\ nextId = 0
    /\ crashed = FALSE
    /\ handed = [i \in JobIds |-> 0]
    /\ lastRet = NoRes
    /\ ran = {}
    /\ faulted = {}
    /\ reports = {}

\* mutant: Start does not look at the pool state
StartUnchecked(c) ==
    /\ ~crashed
    /\ callPc[c] = "idle"
    /\ poolState' = "Running"
    /\ poolWg' = poolWg + PoolSize
    /\ jpc' = [w \in 1 .. PoolSize |-> "select"]
    /\ job' = [w \in 1 .. PoolSize |-> NoJob]
    /\ jobCtx' = [w \in 1 .. PoolSize |-> "none"]
    /\ lastRet' = Ret("Start", "nil")
    /\ UNCHANGED <<ctx, jobs, jobsClosed, callPc, callJob, nextId, crashed, handed,
                   ran, faulted, reports>>
    /\ UNCHANGED notPool

\* Start(): Created -> Running, poolSize workers are started, each after wg.Add(1)
Start(c) ==
    /\ ~crashed
    /\ callPc[c] = "idle"
    /\ poolState = "Created"
    /\ poolState' = "Running"
    /\ poolWg' = poolWg + PoolSize
    /\ jpc' = [w \in 1 .. PoolSize |-> "select"]
    /\ job' = [w \in 1 .. PoolSize |-> NoJob]
    /\ jobCtx' = [w \in 1 .. PoolSize |-> "none"]
    /\ lastRet' = Ret("Start", "nil")
    /\ UNCHANGED <<ctx, jobs, jobsClosed, callPc, callJob, nextId, crashed, handed,
                   ran, faulted, reports>>
    /\ UNCHANGED notPool

\* Start() in any state but Created: AlreadyStarted, nothing changes
StartAgain(c) ==
    /\ ~crashed
    /\ callPc[c] = "idle"
    /\ poolState # "Created"
    /\ lastRet' = Ret("Start", "AlreadyStarted")
    /\ UNCHANGED <<poolState, ctx, jobs, jobsClosed, poolWg, jpc, job, jobCtx, callPc,
                   callJob, nextId, crashed, handed, ran, faulted, reports>>
    /\ UNCHANGED notPool

\* Submit(task) in any state but Running: PoolNotRunning, the task goes nowhere
SubmitReject(c) ==
    /\ ~crashed
    /\ callPc[c] = "idle"
    /\ poolState # "Running"
    /\ lastRet' = Ret("Submit", "PoolNotRunning")
    /\ UNCHANGED <<poolState, ctx, jobs, jobsClosed, poolWg, jpc, job, jobCtx, callPc,
                   callJob, nextId, crashed, handed, ran, faulted, reports>>
    /\ UNCHANGED notPool

\* mutant: Submit does not look at the pool state
SubmitBeginUnchecked(c) ==
    /\ ~crashed
    /\ callPc[c] = "idle"
    /\ nextId < MaxJobs
    /\ callJob' = [callJob EXCEPT ![c] = nextId]
    /\ nextId' = nextId + 1
    /\ callPc' = [callPc EXCEPT ![c] = "enqueue"]
    /\ lastRet' = NoRes
    /\ UNCHANGED <<poolState, ctx, jobs, jobsClosed, poolWg, jpc, job, jobCtx, crashed,
                   handed, ran, faulted, reports>>
    /\ UNCHANGED notPool

\* Submit(task) in Running: the caller enters Enqueue(task)
SubmitBegin(c) ==
    /\ ~crashed
    /\ callPc[c] = "idle"
    /\ poolState = "Running"
    /\ nextId < MaxJobs
    /\ callJob' = [callJob EXCEPT ![c] = nextId]
    /\ nextId' = nextId + 1
    /\ callPc' = [callPc EXCEPT ![c] = "enqueue"]
    /\ lastRet' = NoRes
    /\ UNCHANGED <<poolState, ctx, jobs, jobsClosed, poolWg, jpc, job, jobCtx, crashed,
                   handed, ran, faulted, reports>>
    /\ UNCHANGED notPool

\* Enqueue(task): the queue is full and the signal has not fired: the caller blocks
EnqueueBlock(c) ==
    /\ ~crashed
    /\ callPc[c] = "enqueue"
    /\ ~CanSend(jobs, QueueCap)
    /\ ~Done(ctx)
    /\ callPc' = [callPc EXCEPT ![c] = "blocked"]
    /\ lastRet' = NoRes
    /\ UNCHANGED <<poolState, ctx, jobs, jobsClosed, poolWg, jpc, job, jobCtx, callJob,
                   nextId, crashed, handed, ran, faulted, reports>>
    /\ UNCHANGED notPool

\* Enqueue(task): the task is placed at the tail once the queue has room
EnqueueSend(c) ==
    /\ ~crashed
    /\ InEnqueue(c)
    /\ ~jobsClosed
    /\ CanSend(jobs, QueueCap)
    /\ jobs' = Append(jobs, callJob[c])
    /\ callJob' = [callJob EXCEPT ![c] = NoJob]
    /\ callPc' = [callPc EXCEPT ![c] = "idle"]
    /\ lastRet' = Ret("Submit", "nil")
    /\ UNCHANGED <<poolState, ctx, jobsClosed, poolWg, jpc, job, jobCtx, nextId,
                   crashed, handed, ran, faulted, reports>>
    /\ UNCHANGED notPool

\* Enqueue(task): the cancellation signal fires first: PoolShuttingDown
EnqueueCancelled(c) ==
    /\ ~crashed
    /\ InEnqueue(c)
    /\ Done(ctx)
    /\ callJob' = [callJob EXCEPT ![c] = NoJob]
    /\ callPc' = [callPc EXCEPT ![c] = "idle"]
    /\ lastRet' = Ret("Submit", "PoolShuttingDown")
    /\ UNCHANGED <<poolState, ctx, jobs, jobsClosed, poolWg, jpc, job, jobCtx, nextId,
                   crashed, handed, ran, faulted, reports>>
    /\ UNCHANGED notPool

\* Shutdown(deadline), first call: Running -> Draining, the cancellation signal
\* is triggered, the queue is optionally closed; the caller then waits
ShutdownFirst(c, closeQueue) ==
    /\ ~crashed
    /\ callPc[c] = "idle"
    /\ poolState = "Running"
    /\ poolState' = "Draining"
    /\ ctx' = cancel(ctx)
    /\ jobCtx' = cancelChildren(jobCtx)
    /\ jobsClosed' = closeQueue
    /\ callPc' = [callPc EXCEPT ![c] = "shutdownWait"]
    /\ lastRet' = NoRes
    /\ UNCHANGED <<jobs, poolWg, jpc, job, callJob, nextId, crashed, handed, ran,
                   faulted, reports>>
    /\ UNCHANGED notPool

\* mutant: a later Shutdown sets the state to Draining again
ShutdownAgainRedrains(c) ==
    /\ ~crashed
    /\ callPc[c] = "idle"
    /\ poolState \in {"Draining", "Stopped"}
    /\ ctx' = cancel(ctx)
    /\ poolState' = "Draining"
    /\ callPc' = [callPc EXCEPT ![c] = "shutdownWait"]
    /\ lastRet' = NoRes
    /\ UNCHANGED <<jobs, jobsClosed, poolWg, jpc, job, jobCtx, callJob, nextId,
                   crashed, handed, ran, faulted, reports>>
    /\ UNCHANGED notPool

\* Shutdown(deadline), a later call: the signal is triggered again, which is a
\* no-op; the caller waits
ShutdownAgain(c) ==
    /\ ~crashed
    /\ callPc[c] = "idle"
    /\ poolState \in {"Draining", "Stopped"}
    /\ ctx' = cancel(ctx)
    /\ callPc' = [callPc EXCEPT ![c] = "shutdownWait"]
    /\ lastRet' = NoRes
    /\ UNCHANGED <<poolState, jobs, jobsClosed, poolWg, jpc, job, jobCtx, callJob,
                   nextId, crashed, handed, ran, faulted, reports>>
    /\ UNCHANGED notPool

\* Draining -> Stopped when the completion barrier reaches zero
BarrierReached ==
    /\ ~crashed
    /\ poolState = "Draining"
    /\ poolWg = 0
    /\ poolState' = "Stopped"
    /\ lastRet' = NoRes
    /\ UNCHANGED <<ctx, jobs, jobsClosed, poolWg, jpc, job, jobCtx, callPc, callJob,
                   nextId, crashed, handed, ran, faulted, reports>>
    /\ UNCHANGED notPool

\* Shutdown returns nil once all workers have exited
ShutdownReturn(c) ==
    /\ ~crashed
    /\ callPc[c] = "shutdownWait"
    /\ poolState = "Stopped"
    /\ callPc' = [callPc EXCEPT ![c] = "idle"]
    /\ lastRet' = Ret("Shutdown", "nil")
    /\ UNCHANGED <<poolState, ctx, jobs, jobsClosed, poolWg, jpc, job, jobCtx, callJob,
                   nextId, crashed, handed, ran, faulted, reports>>
    /\ UNCHANGED notPool

\* Shutdown returns ShutdownTimedOut when the deadline elapses first
ShutdownTimedOut(c) ==
    /\ ~crashed
    /\ callPc[c] = "shutdownWait"
    /\ poolState # "Stopped"
    /\ callPc' = [callPc EXCEPT ![c] = "idle"]
    /\ lastRet' = Ret("Shutdown", "ShutdownTimedOut")
    /\ UNCHANGED <<poolState, ctx, jobs, jobsClosed, poolWg, jpc, job, jobCtx, callJob,
                   nextId, crashed, handed, ran, faulted, reports>>
    /\ UNCHANGED notPool

\* mutant: the worker looks at ctx.Done() only once the jobs channel is closed
PWorkerCancelledOnlyWhenClosed(w) ==
    /\ ~crashed
    /\ jpc[w] = "select"
    /\ Done(ctx)
    /\ jobsClosed
    /\ poolWg' = poolWg - 1
    /\ jpc' = [jpc EXCEPT ![w] = "done"]
    /\ lastRet' = NoRes
    /\ UNCHANGED <<poolState, ctx, jobs, jobsClosed, job, jobCtx, callPc, callJob,
                   nextId, crashed, handed, ran, faulted, reports>>
    /\ UNCHANGED notPool

\* select: case <-ctx.Done(): return, and the deferred wg.Done() runs
PWorkerCancelled(w) ==
    /\ ~crashed
    /\ jpc[w] = "select"
    /\ Done(ctx)
    /\ poolWg' = poolWg - 1
    /\ jpc' = [jpc EXCEPT ![w] = "done"]
    /\ lastRet' = NoRes
    /\ UNCHANGED <<poolState, ctx, jobs, jobsClosed, job, jobCtx, callPc, callJob,
                   nextId, crashed, handed, ran, faulted, reports>>
    /\ UNCHANGED notPool

\* mutant: the receive copies the head of the queue without removing it
PWorkerRecvPeek(w, known) ==
    /\ ~crashed
    /\ jpc[w] = "select"
    /\ CanRecv(jobs)
    /\ handed' = [handed EXCEPT ![Head(jobs)] = @ + 1]
    /\ IF ~known
         THEN UNCHANGED <<ran, job, jobCtx, jpc>>
         ELSE /\ ran' = ran \cup {Head(jobs)}
              /\ job' = [job EXCEPT ![w] = Head(jobs)]
              /\ jobCtx' = [jobCtx EXCEPT ![w] = WithTimeout(ctx)]
              /\ jpc' = [jpc EXCEPT ![w] = "handler"]
    /\ lastRet' = NoRes
    /\ UNCHANGED <<poolState, ctx, jobs, jobsClosed, poolWg, callPc, callJob, nextId,
                   crashed, faulted, reports>>
    /\ UNCHANGED notPool

\* mutant: the select prefers ctx.Done(): no job is received once it has fired
PWorkerRecvUnlessCancelled(w, known) ==
    /\ ~crashed
    /\ jpc[w] = "select"
    /\ CanRecv(jobs)
    /\ ~Done(ctx)
    /\ jobs' = Tail(jobs)
    /\ handed' = [handed EXCEPT ![Head(jobs)] = @ + 1]
    /\ IF ~known
         THEN UNCHANGED <<ran, job, jobCtx, jpc>>
         ELSE /\ ran' = ran \cup {Head(jobs)}
              /\ job' = [job EXCEPT ![w] = Head(jobs)]
              /\ jobCtx' = [jobCtx EXCEPT ![w] = WithTimeout(ctx)]
              /\ jpc' = [jpc EXCEPT ![w] = "handler"]
    /\ lastRet' = NoRes
    /\ UNCHANGED <<poolState, ctx, jobsClosed, poolWg, callPc, callJob, nextId,
                   crashed, faulted, reports>>
    /\ UNCHANGED notPool

\* select: case job, ok := <-jobs with ok = true. known: handlerMap has a handler
\* for job.Type. A job without one is skipped (continue); otherwise the per-job context is made with
\* context.WithTimeout(ctx, 30*time.Second) and h(jobCtx, job) is called
PWorkerRecv(w, known) ==
    /\ ~crashed
    /\ jpc[w] = "select"
    /\ CanRecv(jobs)
    /\ jobs' = Tail(jobs)
    /\ handed' = [handed EXCEPT ![Head(jobs)] = @ + 1]
    /\ IF ~known
         THEN UNCHANGED <<ran, job, jobCtx, jpc>>
         ELSE /\ ran' = ran \cup {Head(jobs)}
              /\ job' = [job EXCEPT ![w] = Head(jobs)]
              /\ jobCtx' = [jobCtx EXCEPT ![w] = WithTimeout(ctx)]
              /\ jpc' = [jpc EXCEPT ![w] = "handler"]
    /\ lastRet' = NoRes
    /\ UNCHANGED <<poolState, ctx, jobsClosed, poolWg, callPc, callJob, nextId,
                   crashed, faulted, reports>>
    /\ UNCHANGED notPool

\* mutant: wg.Done() is called in the ctx.Done() case instead of being deferred,
\* so the return on a closed channel skips it
PWorkerRecvClosedNoDone(w) ==
    /\ ~crashed
    /\ jpc[w] = "select"
    /\ RecvClosed(jobs, jobsClosed)
    /\ jpc' = [jpc EXCEPT ![w] = "done"]
    /\ lastRet' = NoRes
    /\ UNCHANGED <<poolState, ctx, jobs, jobsClosed, poolWg, job, jobCtx, callPc,
                   callJob, nextId, crashed, handed, ran, faulted, reports>>
    /\ UNCHANGED notPool

\* select: case job, ok := <-jobs with ok = false: return, and the deferred
\* wg.Done() runs
PWorkerRecvClosed(w) ==
    /\ ~crashed
    /\ jpc[w] = "select"
    /\ RecvClosed(jobs, jobsClosed)
    /\ poolWg' = poolWg - 1
    /\ jpc' = [jpc EXCEPT ![w] = "done"]
    /\ lastRet' = NoRes
    /\ UNCHANGED <<poolState, ctx, jobs, jobsClosed, job, jobCtx, callPc, callJob,
                   nextId, crashed, handed, ran, faulted, reports>>
    /\ UNCHANGED notPool

\* the 30 seconds of the per-job context elapse while the handler runs
PJobTimeout(w) ==
    /\ ~crashed
    /\ jpc[w] = "handler"
    /\ jobCtx[w] = "active"
    /\ jobCtx' = [jobCtx EXCEPT ![w] = "timedOut"]
    /\ lastRet' = NoRes
    /\ UNCHANGED <<poolState, ctx, jobs, jobsClosed, poolWg, jpc, job, callPc, callJob,
                   nextId, crashed, handed, ran, faulted, reports>>
    /\ UNCHANGED notPool

\* mutant: wg.Done() is called after every job instead of being deferred
PHandlerReturnDone(w, err) ==
    /\ ~crashed
    /\ jpc[w] = "handler"
    /\ faulted' = IF err THEN faulted \cup {job[w]} ELSE faulted
    /\ jobCtx' = [jobCtx EXCEPT ![w] = "none"]
    /\ job' = [job EXCEPT ![w] = NoJob]
    /\ jpc' = [jpc EXCEPT ![w] = "select"]
    /\ poolWg' = poolWg - 1
    /\ lastRet' = NoRes
    /\ UNCHANGED <<poolState, ctx, jobs, jobsClosed, callPc, callJob, nextId, crashed,
                   handed, ran, reports>>
    /\ UNCHANGED notPool

\* _ = h(jobCtx, job): the handler returns nil or an error (err), which is
\* discarded: nothing is sent or logged;
\* cancel() releases the per-job context and the loop goes round
PHandlerReturn(w, err) ==
    /\ ~crashed
    /\ jpc[w] = "handler"
    /\ faulted' = IF err THEN faulted \cup {job[w]} ELSE faulted
    /\ jobCtx' = [jobCtx EXCEPT ![w] = "none"]
    /\ job' = [job EXCEPT ![w] = NoJob]
    /\ jpc' = [jpc EXCEPT ![w] = "select"]
    /\ lastRet' = NoRes
    /\ UNCHANGED <<poolState, ctx, jobs, jobsClosed, poolWg, callPc, callJob, nextId,
                   crashed, handed, ran, reports>>
    /\ UNCHANGED notPool

\* h(jobCtx, job) panics: nothing recovers, the deferred wg.Done() runs and the
\* process exits
PHandlerPanic(w) ==
    /\ ~crashed
    /\ jpc[w] = "handler"
    /\ poolWg' = poolWg - 1
    /\ jpc' = [jpc EXCEPT ![w] = "panicked"]
    /\ faulted' = faulted \cup {job[w]}
    /\ crashed' = TRUE
    /\ lastRet' = NoRes
    /\ UNCHANGED <<poolState, ctx, jobs, jobsClosed, job, jobCtx, callPc, callJob,
                   nextId, handed, ran, reports>>
    /\ UNCHANGED notPool

PWorker(w) ==
    \/ PWorkerCancelled(w)
    \/ \E known \in BOOLEAN : PWorkerRecv(w, known)
    \/ PWorkerRecvClosed(w)
    \/ \E err \in BOOLEAN : PHandlerReturn(w, err)
    \/ PHandlerPanic(w)

Next ==
    \/ \E c \in Callers : Start(c)
    \/ \E c \in Callers : StartAgain(c)
    \/ \E c \in Callers : SubmitReject(c)
    \/ \E c \in Callers : SubmitBegin(c)
    \/ \E c \in Callers : EnqueueBlock(c)
    \/ \E c \in Callers : EnqueueSend(c)
    \/ \E c \in Callers : EnqueueCancelled(c)
    \/ \E c \in Callers, closeQueue \in BOOLEAN : ShutdownFirst(c, closeQueue)
    \/ \E c \in Callers : ShutdownAgain(c)
    \/ BarrierReached
    \/ \E c \in Callers : ShutdownReturn(c)
    \/ \E c \in Callers : ShutdownTimedOut(c)
    \/ \E w \in PoolWorkers : PJobTimeout(w)
    \/ \E w \in PoolWorkers : PWorker(w)

\* ------------------------------------------------- sync.Once demo (syncOnce.go)
\* for i := 0; i < 10; i++ in main, scaled down
NumGoroutines == 3
Goroutines == 1 .. NumGoroutines
\* the value of once.m when no goroutine holds it
Unlocked == 0

\* the goroutines whose func() has not returned
Unfinished == {g \in Goroutines : opc[g] # "finished"}

\* the process runs: main has not returned and no goroutine has panicked
SoRunning == soMainPc # "exited" /\ ~soPanicked

SOInit ==
    /\ soMainPc = "spawn"
    /\ soI = 0
    /\ soWg = 0
    /\ soWaiting = FALSE
    /\ soPanicked = FALSE
    /\ onceDone = 0
    /\ onceM = Unlocked
    /\ initialized = FALSE
    /\ initCalls = 0
    /\ opc = [g \in Goroutines |-> "unstarted"]
    /\ seen = [g \in Goroutines |-> "none"]

\* main: go func() { ... }() in the loop; the goroutine starts at wg.Add(1)
SoSpawn ==
    /\ SoRunning
    /\ soMainPc = "spawn"
    /\ soI < NumGoroutines
    /\ opc' = [opc EXCEPT ![soI + 1] = "add"]
    /\ soI' = soI + 1
    /\ UNCHANGED <<soMainPc, soWg, soWaiting, soPanicked, onceDone, onceM, initialized,
                   initCalls, seen>>
    /\ UNCHANGED notSO

\* main: the loop ends
SoSpawnDone ==
    /\ SoRunning
    /\ soMainPc = "spawn"
    /\ soI = NumGoroutines
    /\ soMainPc' = "wait"
    /\ UNCHANGED <<soI, soWg, soWaiting, soPanicked, onceDone, onceM, initialized,
                   initCalls, opc, seen>>
    /\ UNCHANGED notSO

\* main: wg.Wait() with the counter at zero returns at once
SoWaitReturn ==
    /\ SoRunning
    /\ soMainPc = "wait"
    /\ soWg = 0
    /\ soMainPc' = "println"
    /\ UNCHANGED <<soI, soWg, soWaiting, soPanicked, onceDone, onceM, initialized,
                   initCalls, opc, seen>>
    /\ UNCHANGED notSO

\* main: wg.Wait() with a positive counter registers main as a waiter and blocks
SoWaitBlock ==
    /\ SoRunning
    /\ soMainPc = "wait"
    /\ soWg > 0
    /\ soWaiting' = TRUE
    /\ soMainPc' = "blocked"
    /\ UNCHANGED <<soI, soWg, soPanicked, onceDone, onceM, initialized, initCalls, opc,
                   seen>>
    /\ UNCHANGED notSO

\* main: woken by the last Done, Wait finds the counter still zero and returns
SoWoken ==
    /\ SoRunning
    /\ soMainPc = "woken"
    /\ soWg = 0
    /\ soMainPc' = "println"
    /\ UNCHANGED <<soI, soWg, soWaiting, soPanicked, onceDone, onceM, initialized,
                   initCalls, opc, seen>>
    /\ UNCHANGED notSO

\* main: woken by the last Done, Wait finds that a goroutine has called Add since:
\* sync panics with "WaitGroup is reused before previous Wait has returned"
SoWokenReused ==
    /\ SoRunning
    /\ soMainPc = "woken"
    /\ soWg > 0
    /\ soPanicked' = TRUE
    /\ UNCHANGED <<soMainPc, soI, soWg, soWaiting, onceDone, onceM, initialized,
                   initCalls, opc, seen>>
    /\ UNCHANGED notSO

\* main: fmt.Println("All goroutines completed")
SoPrintln ==
    /\ SoRunning
    /\ soMainPc = "println"
    /\ soMainPc' = "printed"
    /\ UNCHANGED <<soI, soWg, soWaiting, soPanicked, onceDone, onceM, initialized,
                   initCalls, opc, seen>>
    /\ UNCHANGED notSO

\* main returns: the process exits and the goroutines still running end with it
SoExit ==
    /\ SoRunning
    /\ soMainPc = "printed"
    /\ soMainPc' = "exited"
    /\ UNCHANGED <<soI, soWg, soWaiting, soPanicked, onceDone, onceM, initialized,
                   initCalls, opc, seen>>
    /\ UNCHANGED notSO

\* goroutine: wg.Add(1), called by the goroutine itself
GoAdd(g) ==
    /\ SoRunning
    /\ opc[g] = "add"
    /\ ~(soWaiting /\ soWg = 0)
    /\ soWg' = soWg + 1
    /\ opc' = [opc EXCEPT ![g] = "do"]
    /\ UNCHANGED <<soMainPc, soI, soWaiting, soPanicked, onceDone, onceM, initialized,
                   initCalls, seen>>
    /\ UNCHANGED notSO

\* goroutine: wg.Add(1) raises the counter from zero while main is still registered
\* as a waiter: sync panics with "WaitGroup misuse: Add called concurrently with Wait"
GoAddMisuse(g) ==
    /\ SoRunning
    /\ opc[g] = "add"
    /\ soWaiting /\ soWg = 0
    /\ soPanicked' = TRUE
    /\ UNCHANGED <<soMainPc, soI, soWg, soWaiting, onceDone, onceM, initialized,
                   initCalls, opc, seen>>
    /\ UNCHANGED notSO

\* Once.Do: if atomic.LoadUint32(&o.done) == 1 { return }
OnceDoFast(g) ==
    /\ SoRunning
    /\ opc[g] = "do"
    /\ onceDone = 1
    /\ opc' = [opc EXCEPT ![g] = "println"]
    /\ UNCHANGED <<soMainPc, soI, soWg, soWaiting, soPanicked, onceDone, onceM,
                   initialized, initCalls, seen>>
    /\ UNCHANGED notSO

\* Once.Do: o.done is 0, so o.doSlow(f) is called
OnceDoSlow(g) ==
    /\ SoRunning
    /\ opc[g] = "do"
    /\ onceDone = 0
    /\ opc' = [opc EXCEPT ![g] = "lock"]
    /\ UNCHANGED <<soMainPc, soI, soWg, soWaiting, soPanicked, onceDone, onceM,
                   initialized, initCalls, seen>>
    /\ UNCHANGED notSO

\* mutant: doSlow does not take o.m
OnceLockNoMutex(g) ==
    /\ SoRunning
    /\ opc[g] = "lock"
    /\ onceM' = g
    /\ opc' = [opc EXCEPT ![g] = IF onceDone = 0 THEN "f" ELSE "unlock"]
    /\ UNCHANGED <<soMainPc, soI, soWg, soWaiting, soPanicked, onceDone, initialized,
                   initCalls, seen>>
    /\ UNCHANGED notSO

\* doSlow: o.m.Lock(); if o.done == 0 { ... }
OnceLock(g) ==
    /\ SoRunning
    /\ opc[g] = "lock"
    /\ onceM = Unlocked
    /\ onceM' = g
    /\ opc' = [opc EXCEPT ![g] = IF onceDone = 0 THEN "f" ELSE "unlock"]
    /\ UNCHANGED <<soMainPc, soI, soWg, soWaiting, soPanicked, onceDone, initialized,
                   initCalls, seen>>
    /\ UNCHANGED notSO

\* doSlow: f(), which is initialize: initialized = true
OnceCallF(g) ==
    /\ SoRunning
    /\ opc[g] = "f"
    /\ initialized' = TRUE
    /\ initCalls' = initCalls + 1
    /\ opc' = [opc EXCEPT ![g] = "store"]
    /\ UNCHANGED <<soMainPc, soI, soWg, soWaiting, soPanicked, onceDone, onceM, seen>>
    /\ UNCHANGED notSO

\* doSlow: defer atomic.StoreUint32(&o.done, 1)
OnceStore(g) ==
    /\ SoRunning
    /\ opc[g] = "store"
    /\ onceDone' = 1
    /\ opc' = [opc EXCEPT ![g] = "unlock"]
    /\ UNCHANGED <<soMainPc, soI, soWg, soWaiting, soPanicked, onceM, initialized,
                   initCalls, seen>>
    /\ UNCHANGED notSO

\* doSlow: defer o.m.Unlock(); once.Do returns
OnceUnlock(g) ==
    /\ SoRunning
    /\ opc[g] = "unlock"
    /\ onceM' = Unlocked
    /\ opc' = [opc EXCEPT ![g] = "println"]
    /\ UNCHANGED <<soMainPc, soI, soWg, soWaiting, soPanicked, onceDone, initialized,
                   initCalls, seen>>
    /\ UNCHANGED notSO

\* goroutine: fmt.Println(initialized) prints true or false
GoPrintln(g) ==
    /\ SoRunning
    /\ opc[g] = "println"
    /\ seen' = [seen EXCEPT ![g] = IF initialized THEN "true" ELSE "false"]
    /\ opc' = [opc EXCEPT ![g] = "wgDone"]
    /\ UNCHANGED <<soMainPc, soI, soWg, soWaiting, soPanicked, onceDone, onceM,
                   initialized, initCalls>>
    /\ UNCHANGED notSO

\* goroutine: the deferred wg.Done(); a Done that brings the counter to zero
\* leaves the release of the waiter to the next step
GoWgDone(g) ==
    /\ SoRunning
    /\ opc[g] = "wgDone"
    /\ soWg' = soWg - 1
    /\ opc' = [opc EXCEPT ![g] = IF soWg = 1 /\ soWaiting THEN "release" ELSE "finished"]
    /\ UNCHANGED <<soMainPc, soI, soWaiting, soPanicked, onceDone, onceM, initialized,
                   initCalls, seen>>
    /\ UNCHANGED notSO

\* goroutine: the Done that reached zero wakes the waiter
GoRelease(g) ==
    /\ SoRunning
    /\ opc[g] = "release"
    /\ soWaiting' = FALSE
    /\ soMainPc' = "woken"
    /\ opc' = [opc EXCEPT ![g] = "finished"]
    /\ UNCHANGED <<soI, soWg, soPanicked, onceDone, onceM, initialized, initCalls,
                   seen>>
    /\ UNCHANGED notSO

SONext ==
    \/ SoSpawn
    \/ SoSpawnDone
    \/ SoWaitReturn
    \/ SoWaitBlock
    \/ SoWoken
    \/ SoWokenReused
    \/ SoPrintln
    \/ SoExit
    \/ \E g \in Goroutines : GoAdd(g)
    \/ \E g \in Goroutines : GoAddMisuse(g)
    \/ \E g \in Goroutines : OnceDoFast(g)
    \/ \E g \in Goroutines : OnceDoSlow(g)
    \/ \E g \in Goroutines : OnceLock(g)
    \/ \E g \in Goroutines : OnceCallF(g)
    \/ \E g \in Goroutines : OnceStore(g)
    \/ \E g \in Goroutines : OnceUnlock(g)
    \/ \E g \in Goroutines : GoPrintln(g)
    \/ \E g \in Goroutines : GoWgDone(g)
    \/ \E g \in Goroutines : GoRelease(g)

\* ------------------------------------ ResilientOnce (contextWithTimeout.go)
\* for i := 0; i < 3; i++ in testResilientOnce: the goroutines calling Do
ResCallers == 3
ResGoroutines == 1 .. ResCallers
\* what one invocation of f does: return nil, return an error, or panic
Outcomes == {"nil", "err", "panic"}

\* fmt.Errorf("initialization failed: %w", r.initErr) is a non-nil error
\* whatever r.initErr holds; Do returns it unless r.succeeded
DoResult(succeeded) == IF succeeded THEN "nil" ELSE "error"

ROInit ==
    /\ roPc = [c \in ResGoroutines |-> "do"]
    /\ roDone = 0
    /\ roM = Unlocked
    /\ roInitErr = "nil"
    /\ roSucceeded = FALSE
    /\ roReaders = 0
    /\ roRet = [c \in ResGoroutines |-> "none"]
    /\ roCalls = 0
    /\ roOutcome = "none"

\* r.once.Do: done is 1, the function is not called
RoDoFast(c) ==
    /\ roPc[c] = "do"
    /\ roDone = 1
    /\ roPc' = [roPc EXCEPT ![c] = "rlock"]
    /\ UNCHANGED <<roDone, roM, roInitErr, roSucceeded, roReaders, roRet, roCalls,
                   roOutcome>>
    /\ UNCHANGED notRO

\* r.once.Do: done is 0, doSlow is entered
RoDoSlow(c) ==
    /\ roPc[c] = "do"
    /\ roDone = 0
    /\ roPc' = [roPc EXCEPT ![c] = "lock"]
    /\ UNCHANGED <<roDone, roM, roInitErr, roSucceeded, roReaders, roRet, roCalls,
                   roOutcome>>
    /\ UNCHANGED notRO

\* doSlow: o.m.Lock(); if o.done == 0 { ... }
RoLock(c) ==
    /\ roPc[c] = "lock"
    /\ roM = Unlocked
    /\ roM' = c
    /\ roPc' = [roPc EXCEPT ![c] = IF roDone = 0 THEN "f" ELSE "unlock"]
    /\ UNCHANGED <<roDone, roInitErr, roSucceeded, roReaders, roRet, roCalls,
                   roOutcome>>
    /\ UNCHANGED notRO

\* the function given to once.Do: err := f(). out is what f does
RoCallF(c, out) ==
    /\ roPc[c] = "f"
    /\ roCalls' = roCalls + 1
    /\ roOutcome' = out
    /\ roPc' = [roPc EXCEPT ![c] = IF out = "panic" THEN "recover" ELSE "record"]
    /\ UNCHANGED <<roDone, roM, roInitErr, roSucceeded, roReaders, roRet>>
    /\ UNCHANGED notRO

\* f returned: r.mu.Lock(); r.initErr = err; r.succeeded = (err == nil);
\* r.mu.Unlock()
RoRecord(c) ==
    /\ roPc[c] = "record"
    /\ roReaders = 0
    /\ roInitErr' = roOutcome
    /\ roSucceeded' = (roOutcome = "nil")
    /\ roPc' = [roPc EXCEPT ![c] = "store"]
    /\ UNCHANGED <<roDone, roM, roReaders, roRet, roCalls, roOutcome>>
    /\ UNCHANGED notRO

\* mutant: no deferred recover(): the panic unwinds doSlow, whose deferred store and
\* unlock run, and leaves Do
RoRecoverMissing(c) ==
    /\ roPc[c] = "recover"
    /\ roDone' = 1
    /\ roM' = Unlocked
    /\ roPc' = [roPc EXCEPT ![c] = "panicked"]
    /\ UNCHANGED <<roInitErr, roSucceeded, roReaders, roRet, roCalls, roOutcome>>
    /\ UNCHANGED notRO

\* f panicked: the deferred function recovers, then r.mu.Lock();
\* r.initErr = fmt.Errorf("panic during initialization: %v", rec);
\* r.succeeded = false; r.mu.Unlock()
RoRecover(c) ==
    /\ roPc[c] = "recover"
    /\ roReaders = 0
    /\ roInitErr' = "panic"
    /\ roSucceeded' = FALSE
    /\ roPc' = [roPc EXCEPT ![c] = "store"]
    /\ UNCHANGED <<roDone, roM, roReaders, roRet, roCalls, roOutcome>>
    /\ UNCHANGED notRO

\* mutant: done is stored only when the initialization succeeded
RoStoreOnSuccess(c) ==
    /\ roPc[c] = "store"
    /\ roDone' = IF roSucceeded THEN 1 ELSE roDone
    /\ roPc' = [roPc EXCEPT ![c] = "unlock"]
    /\ UNCHANGED <<roM, roInitErr, roSucceeded, roReaders, roRet, roCalls, roOutcome>>
    /\ UNCHANGED notRO

\* doSlow: defer atomic.StoreUint32(&o.done, 1)
RoStore(c) ==
    /\ roPc[c] = "store"
    /\ roDone' = 1
    /\ roPc' = [roPc EXCEPT ![c] = "unlock"]
    /\ UNCHANGED <<roM, roInitErr, roSucceeded, roReaders, roRet, roCalls, roOutcome>>
    /\ UNCHANGED notRO

\* doSlow: defer o.m.Unlock(); r.once.Do returns
RoUnlock(c) ==
    /\ roPc[c] = "unlock"
    /\ roM' = Unlocked
    /\ roPc' = [roPc EXCEPT ![c] = "rlock"]
    /\ UNCHANGED <<roDone, roInitErr, roSucceeded, roReaders, roRet, roCalls,
                   roOutcome>>
    /\ UNCHANGED notRO

\* Do: r.mu.RLock()
RoRLock(c) ==
    /\ roPc[c] = "rlock"
    /\ roReaders' = roReaders + 1
    /\ roPc' = [roPc EXCEPT ![c] = "read"]
    /\ UNCHANGED <<roDone, roM, roInitErr, roSucceeded, roRet, roCalls, roOutcome>>
    /\ UNCHANGED notRO

\* Do: if !r.succeeded { return fmt.Errorf(...) }; return nil, and the deferred
\* r.mu.RUnlock()
RoReturn(c) ==
    /\ roPc[c] = "read"
    /\ roRet' = [roRet EXCEPT ![c] = DoResult(roSucceeded)]
    /\ roReaders' = roReaders - 1
    /\ roPc' = [roPc EXCEPT ![c] = "returned"]
    /\ UNCHANGED <<roDone, roM, roInitErr, roSucceeded, roCalls, roOutcome>>
    /\ UNCHANGED notRO

RONext ==
    \/ \E c \in ResGoroutines : RoDoFast(c)
    \/ \E c \in ResGoroutines : RoDoSlow(c)
    \/ \E c \in ResGoroutines : RoLock(c)
    \/ \E c \in ResGoroutines, out \in Outcomes : RoCallF(c, out)
    \/ \E c \in ResGoroutines : RoRecord(c)
    \/ \E c \in ResGoroutines : RoRecover(c)
    \/ \E c \in ResGoroutines : RoStore(c)
    \/ \E c \in ResGoroutines : RoUnlock(c)
    \/ \E c \in ResGoroutines : RoRLock(c)
    \/ \E c \in ResGoroutines : RoReturn(c)

\* ---------------------------------------- RetryOnce (contextWithTimeout.go)
\* for i := 0; i < 3; i++ in testRetryOnce: the goroutines calling Do
RetryCallers == 3
RetryGoroutines == 1 .. RetryCallers
\* RetryOnce{maxRetries: 3}: the largest value given to the field, scaled down
MaxRetries == 2

\* the closure around f(): a panic is recovered and becomes the error
\* fmt.Errorf("panic: %v", rec); anything else is returned as it is
AttemptUnrecovered(out) == IF out = "err" THEN "error" ELSE out
Attempt(out) == IF out = "nil" THEN "nil" ELSE "error"

\* the goroutines inside Do with r.mu taken
InRound == {c \in RetryGoroutines : rtPc[c] \in {"check", "loop", "f", "sleep", "unlock"}}

RTInit ==
    /\ rtPc = [c \in RetryGoroutines |-> "unstarted"]
    /\ rtMu = Unlocked
    /\ rtInitialized = FALSE
    /\ maxRetries = 0
    /\ rtAttempt = [c \in RetryGoroutines |-> 0]
    /\ rtRet = [c \in RetryGoroutines |-> "none"]
    /\ rtCalls = 0
    /\ rtSucc = 0
    /\ rtInvoked = [c \in RetryGoroutines |-> 0]

\* retryOnce := RetryOnce{maxRetries: m}, and the goroutines that call
\* retryOnce.Do(initialize) are started
RtMake(m) ==
    /\ \A c \in RetryGoroutines : rtPc[c] = "unstarted"
    /\ maxRetries' = m
    /\ rtPc' = [c \in RetryGoroutines |-> "lock"]
    /\ UNCHANGED <<rtMu, rtInitialized, rtAttempt, rtRet, rtCalls, rtSucc, rtInvoked>>
    /\ UNCHANGED notRT

\* mutant: Do does not take r.mu
RtLockNoMutex(c) ==
    /\ rtPc[c] = "lock"
    /\ rtMu' = c
    /\ rtPc' = [rtPc EXCEPT ![c] = "check"]
    /\ UNCHANGED <<rtInitialized, maxRetries, rtAttempt, rtRet, rtCalls, rtSucc,
                   rtInvoked>>
    /\ UNCHANGED notRT

\* Do: r.mu.Lock()
RtLock(c) ==
    /\ rtPc[c] = "lock"
    /\ rtMu = Unlocked
    /\ rtMu' = c
    /\ rtPc' = [rtPc EXCEPT ![c] = "check"]
    /\ UNCHANGED <<rtInitialized, maxRetries, rtAttempt, rtRet, rtCalls, rtSucc,
                   rtInvoked>>
    /\ UNCHANGED notRT

\* mutant: Do does not look at r.initialized
RtCheckIgnored(c) ==
    /\ rtPc[c] = "check"
    /\ rtPc' = [rtPc EXCEPT ![c] = "loop"]
    /\ UNCHANGED <<rtMu, rtInitialized, maxRetries, rtAttempt, rtRet, rtCalls, rtSucc,
                   rtInvoked>>
    /\ UNCHANGED notRT

\* Do: if r.initialized { return nil }, else the loop starts with attempt := 0
RtCheck(c) ==
    /\ rtPc[c] = "check"
    /\ IF rtInitialized
         THEN /\ rtRet' = [rtRet EXCEPT ![c] = "nil"]
              /\ rtPc' = [rtPc EXCEPT ![c] = "unlock"]
         ELSE /\ rtPc' = [rtPc EXCEPT ![c] = "loop"]
              /\ UNCHANGED rtRet
    /\ UNCHANGED <<rtMu, rtInitialized, maxRetries, rtAttempt, rtCalls, rtSucc,
                   rtInvoked>>
    /\ UNCHANGED notRT

\* the loop: attempt < r.maxRetries, and the body calls f()
RtInvoke(c) ==
    /\ rtPc[c] = "loop"
    /\ rtAttempt[c] < maxRetries
    /\ rtCalls' = rtCalls + 1
    /\ rtInvoked' = [rtInvoked EXCEPT ![c] = @ + 1]
    /\ rtPc' = [rtPc EXCEPT ![c] = "f"]
    /\ UNCHANGED <<rtMu, rtInitialized, maxRetries, rtAttempt, rtRet, rtSucc>>
    /\ UNCHANGED notRT

\* f() ends and err := func() (err error) { defer recover...; return f() }() has
\* its value. out is what f did. err == nil: r.initialized = true; return nil.
\* A panic that the closure let through would leave Do, whose deferred Unlock runs
RtAttempt(c, out) ==
    /\ rtPc[c] = "f"
    /\ CASE Attempt(out) = "nil" ->
              /\ rtInitialized' = TRUE
              /\ rtSucc' = rtSucc + 1
              /\ rtRet' = [rtRet EXCEPT ![c] = "nil"]
              /\ rtPc' = [rtPc EXCEPT ![c] = "unlock"]
              /\ UNCHANGED rtMu
         [] Attempt(out) = "error" ->
              /\ rtPc' = [rtPc EXCEPT ![c] = "sleep"]
              /\ UNCHANGED <<rtInitialized, rtSucc, rtRet, rtMu>>
         [] OTHER ->
              /\ rtPc' = [rtPc EXCEPT ![c] = "panicked"]
              /\ rtMu' = Unlocked
              /\ UNCHANGED <<rtInitialized, rtSucc, rtRet>>
    /\ UNCHANGED <<maxRetries, rtAttempt, rtCalls, rtInvoked>>
    /\ UNCHANGED notRT

\* the loop body after a failure: lastErr = err; Printf; time.Sleep(...); attempt++
RtSleep(c) ==
    /\ rtPc[c] = "sleep"
    /\ rtAttempt' = [rtAttempt EXCEPT ![c] = @ + 1]
    /\ rtPc' = [rtPc EXCEPT ![c] = "loop"]
    /\ UNCHANGED <<rtMu, rtInitialized, maxRetries, rtRet, rtCalls, rtSucc, rtInvoked>>
    /\ UNCHANGED notRT

\* mutant: a Do that has used up its attempts marks the RetryOnce as initialized
RtExhaustedIsFinal(c) ==
    /\ rtPc[c] = "loop"
    /\ rtAttempt[c] >= maxRetries
    /\ rtInitialized' = TRUE
    /\ rtRet' = [rtRet EXCEPT ![c] = "error"]
    /\ rtPc' = [rtPc EXCEPT ![c] = "unlock"]
    /\ UNCHANGED <<rtMu, maxRetries, rtAttempt, rtCalls, rtSucc, rtInvoked>>
    /\ UNCHANGED notRT

\* the loop ends: return fmt.Errorf("all %d attempts failed: %w", ...)
RtExhausted(c) ==
    /\ rtPc[c] = "loop"
    /\ rtAttempt[c] >= maxRetries
    /\ rtRet' = [rtRet EXCEPT ![c] = "error"]
    /\ rtPc' = [rtPc EXCEPT ![c] = "unlock"]
    /\ UNCHANGED <<rtMu, rtInitialized, maxRetries, rtAttempt, rtCalls, rtSucc,
                   rtInvoked>>
    /\ UNCHANGED notRT

\* Do returns: the deferred r.mu.Unlock()
RtUnlock(c) ==
    /\ rtPc[c] = "unlock"
    /\ rtMu' = Unlocked
    /\ rtPc' = [rtPc EXCEPT ![c] = "returned"]
    /\ UNCHANGED <<rtInitialized, maxRetries, rtAttempt, rtRet, rtCalls, rtSucc,
                   rtInvoked>>
    /\ UNCHANGED notRT

RTNext ==
    \/ \E m \in 0 .. MaxRetries : RtMake(m)
    \/ \E c \in RetryGoroutines : RtLock(c)
    \/ \E c \in RetryGoroutines : RtCheck(c)
    \/ \E c \in RetryGoroutines : RtInvoke(c)
    \/ \E c \in RetryGoroutines, out \in Outcomes : RtAttempt(c, out)
    \/ \E c \in RetryGoroutines : RtSleep(c)
    \/ \E c \in RetryGoroutines : RtExhausted(c)
    \/ \E c \in RetryGoroutines : RtUnlock(c)

\* -------------------------------------- CAS-loop increment (notes/atmoics.md)
\* for i := 0; i < 10; i++ in main, scaled down
CasGoroutines == 3
CasIds == 1 .. CasGoroutines
\* what main has printed before its Println
NotPrinted == -1

CASInit ==
    /\ casMainPc = "spawn"
    /\ casI = 0
    /\ casWg = 0
    /\ counter = 0
    /\ cpc = [g \in CasIds |-> "unstarted"]
    /\ old = [g \in CasIds |-> 0]
    /\ casPrinted = NotPrinted

\* main: wg.Add(1); go func() { ... }()
CasSpawn ==
    /\ casMainPc = "spawn"
    /\ casI < CasGoroutines
    /\ casWg' = casWg + 1
    /\ cpc' = [cpc EXCEPT ![casI + 1] = "load"]
    /\ casI' = casI + 1
    /\ UNCHANGED <<casMainPc, counter, old, casPrinted>>
    /\ UNCHANGED notCAS

\* main: the loop ends
CasSpawnDone ==
    /\ casMainPc = "spawn"
    /\ casI = CasGoroutines
    /\ casMainPc' = "wait"
    /\ UNCHANGED <<casI, casWg, counter, cpc, old, casPrinted>>
    /\ UNCHANGED notCAS

\* main: wg.Wait() returns when the counter of the WaitGroup is zero
CasWait ==
    /\ casMainPc = "wait"
    /\ casWg = 0
    /\ casMainPc' = "println"
    /\ UNCHANGED <<casI, casWg, counter, cpc, old, casPrinted>>
    /\ UNCHANGED notCAS

\* main: fmt.Println("Counter:", counter), and main returns
CasPrintln ==
    /\ casMainPc = "println"
    /\ casPrinted' = counter
    /\ casMainPc' = "returned"
    /\ UNCHANGED <<casI, casWg, counter, cpc, old>>
    /\ UNCHANGED notCAS

\* goroutine: old := atomic.LoadInt32(&counter)
CasLoad(g) ==
    /\ cpc[g] = "load"
    /\ old' = [old EXCEPT ![g] = counter]
    /\ cpc' = [cpc EXCEPT ![g] = "cas"]
    /\ UNCHANGED <<casMainPc, casI, casWg, counter, casPrinted>>
    /\ UNCHANGED notCAS

\* mutant: the new value is stored without comparing counter with old
CasStore(g) ==
    /\ cpc[g] = "cas"
    /\ counter' = old[g] + 1
    /\ cpc' = [cpc EXCEPT ![g] = "wgDone"]
    /\ UNCHANGED <<casMainPc, casI, casWg, old, casPrinted>>
    /\ UNCHANGED notCAS

\* goroutine: atomic.CompareAndSwapInt32(&counter, old, new) finds counter = old,
\* stores new = old + 1 and returns true: break
CasSwap(g) ==
    /\ cpc[g] = "cas"
    /\ counter = old[g]
    /\ counter' = old[g] + 1
    /\ cpc' = [cpc EXCEPT ![g] = "wgDone"]
    /\ UNCHANGED <<casMainPc, casI, casWg, old, casPrinted>>
    /\ UNCHANGED notCAS

\* goroutine: CompareAndSwapInt32 finds counter # old and returns false: retry
CasRetry(g) ==
    /\ cpc[g] = "cas"
    /\ counter # old[g]
    /\ cpc' = [cpc EXCEPT ![g] = "load"]
    /\ UNCHANGED <<casMainPc, casI, casWg, counter, old, casPrinted>>
    /\ UNCHANGED notCAS

\* goroutine: the deferred wg.Done()
CasWgDone(g) ==
    /\ cpc[g] = "wgDone"
    /\ casWg' = casWg - 1
    /\ cpc' = [cpc EXCEPT ![g] = "done"]
    /\ UNCHANGED <<casMainPc, casI, counter, old, casPrinted>>
    /\ UNCHANGED notCAS

CasGoroutine(g) ==
    \/ CasLoad(g)
    \/ CasSwap(g)
    \/ CasRetry(g)
    \/ CasWgDone(g)

CasMain == CasSpawn \/ CasSpawnDone \/ CasWait \/ CasPrintln

CASNext ==
    \/ CasMain
    \/ \E g \in CasIds : CasGoroutine(g)

\* ------------------- channel semaphores (standard_structure.md, gomaxprocs.md)
\* maxConcurrent in sem := make(chan struct{}, maxConcurrent)
MaxConcurrent == 2
\* the number of jobs that for job := range jobs receives before jobs is closed
SemJobs == 3
SemJobIds == 1 .. SemJobs
\* limiter := make(chan struct{}, 1000), scaled down
LimiterCap == 1
\* the number of requests that reach the handler of /api
LimRequests == 2
RequestIds == 1 .. LimRequests

\* the job goroutines that hold a slot of sem and have not released it
SemProcessing == {j \in SemJobIds : spc[j] \in {"process", "release"}}
\* the requests that hold a slot of limiter and have not released it
LimProcessing == {r \in RequestIds : lpc[r] \in {"handle", "release"}}

SemInit ==
    /\ semMainPc = "range"
    /\ semNext = 0
    /\ sem = 0
    /\ semFill = 0
    /\ spc = [j \in SemJobIds |-> "unstarted"]
    /\ semAcq = [j \in SemJobIds |-> 0]
    /\ semRel = [j \in SemJobIds |-> 0]
    /\ limiter = 0
    /\ lpc = [r \in RequestIds |-> "arrive"]
    /\ limAcq = [r \in RequestIds |-> 0]
    /\ limRel = [r \in RequestIds |-> 0]

\* mutant: the send on sem does not wait for a free slot
SemAcquireNoBlock ==
    /\ semMainPc = "range"
    /\ semNext < SemJobs
    /\ sem' = sem + 1
    /\ semAcq' = [semAcq EXCEPT ![semNext + 1] = @ + 1]
    /\ semMainPc' = "go"
    /\ UNCHANGED <<semNext, semFill, spc, semRel, limiter, lpc, limAcq, limRel>>
    /\ UNCHANGED notSem

\* for job := range jobs { sem <- struct{}{}: the send blocks while sem is full
SemAcquire ==
    /\ semMainPc = "range"
    /\ semNext < SemJobs
    /\ sem < MaxConcurrent
    /\ sem' = sem + 1
    /\ semAcq' = [semAcq EXCEPT ![semNext + 1] = @ + 1]
    /\ semMainPc' = "go"
    /\ UNCHANGED <<semNext, semFill, spc, semRel, limiter, lpc, limAcq, limRel>>
    /\ UNCHANGED notSem

\* go func(job Job) { ... }(job)
SemGo ==
    /\ semMainPc = "go"
    /\ spc' = [spc EXCEPT ![semNext + 1] = "process"]
    /\ semNext' = semNext + 1
    /\ semMainPc' = "range"
    /\ UNCHANGED <<sem, semFill, semAcq, semRel, limiter, lpc, limAcq, limRel>>
    /\ UNCHANGED notSem

\* the range loop ends: jobs is closed and drained
SemRangeEnd ==
    /\ semMainPc = "range"
    /\ semNext = SemJobs
    /\ semMainPc' = "fill"
    /\ UNCHANGED <<semNext, sem, semFill, spc, semAcq, semRel, limiter, lpc, limAcq,
                   limRel>>
    /\ UNCHANGED notSem

\* for i := 0; i < cap(sem); i++ { sem <- struct{}{} }: one send, which blocks
\* while sem is full
SemFillSlot ==
    /\ semMainPc = "fill"
    /\ semFill < MaxConcurrent
    /\ sem < MaxConcurrent
    /\ sem' = sem + 1
    /\ semFill' = semFill + 1
    /\ UNCHANGED <<semMainPc, semNext, spc, semAcq, semRel, limiter, lpc, limAcq,
                   limRel>>
    /\ UNCHANGED notSem

\* mutant: the final loop runs for i < cap(sem) - 1
SemFillEndEarly ==
    /\ semMainPc = "fill"
    /\ semFill >= MaxConcurrent - 1
    /\ semMainPc' = "done"
    /\ UNCHANGED <<semNext, sem, semFill, spc, semAcq, semRel, limiter, lpc, limAcq,
                   limRel>>
    /\ UNCHANGED notSem

\* the final loop ends at i = cap(sem)
SemFillEnd ==
    /\ semMainPc = "fill"
    /\ semFill = MaxConcurrent
    /\ semMainPc' = "done"
    /\ UNCHANGED <<semNext, sem, semFill, spc, semAcq, semRel, limiter, lpc, limAcq,
                   limRel>>
    /\ UNCHANGED notSem

\* job goroutine: // process job
SemProcess(j) ==
    /\ spc[j] = "process"
    /\ spc' = [spc EXCEPT ![j] = "release"]
    /\ UNCHANGED <<semMainPc, semNext, sem, semFill, semAcq, semRel, limiter, lpc,
                   limAcq, limRel>>
    /\ UNCHANGED notSem

\* job goroutine: defer func(){ <-sem }()
SemRelease(j) ==
    /\ spc[j] = "release"
    /\ sem > 0
    /\ sem' = sem - 1
    /\ semRel' = [semRel EXCEPT ![j] = @ + 1]
    /\ spc' = [spc EXCEPT ![j] = "done"]
    /\ UNCHANGED <<semMainPc, semNext, semFill, semAcq, limiter, lpc, limAcq, limRel>>
    /\ UNCHANGED notSem

\* handler: select { case limiter <- struct{}{}: a slot is free
LimAcquire(r) ==
    /\ lpc[r] = "arrive"
    /\ limiter < LimiterCap
    /\ limiter' = limiter + 1
    /\ limAcq' = [limAcq EXCEPT ![r] = @ + 1]
    /\ lpc' = [lpc EXCEPT ![r] = "handle"]
    /\ UNCHANGED <<semMainPc, semNext, sem, semFill, spc, semAcq, semRel, limRel>>
    /\ UNCHANGED notSem

\* handler: default: http.Error(w, "Server busy", ...): limiter is full
LimReject(r) ==
    /\ lpc[r] = "arrive"
    /\ limiter >= LimiterCap
    /\ lpc' = [lpc EXCEPT ![r] = "rejected"]
    /\ UNCHANGED <<semMainPc, semNext, sem, semFill, spc, semAcq, semRel, limiter,
                   limAcq, limRel>>
    /\ UNCHANGED notSem

\* handler: handleRequest(w, r)
LimHandle(r) ==
    /\ lpc[r] = "handle"
    /\ lpc' = [lpc EXCEPT ![r] = "release"]
    /\ UNCHANGED <<semMainPc, semNext, sem, semFill, spc, semAcq, semRel, limiter,
                   limAcq, limRel>>
    /\ UNCHANGED notSem

\* handler: defer func() { <-limiter }()
LimRelease(r) ==
    /\ lpc[r] = "release"
    /\ limiter > 0
    /\ limiter' = limiter - 1
    /\ limRel' = [limRel EXCEPT ![r] = @ + 1]
    /\ lpc' = [lpc EXCEPT ![r] = "done"]
    /\ UNCHANGED <<semMainPc, semNext, sem, semFill, spc, semAcq, semRel, limAcq>>
    /\ UNCHANGED notSem

SemMain == SemAcquire \/ SemGo \/ SemRangeEnd \/ SemFillSlot \/ SemFillEnd

SemJob(j) == SemProcess(j) \/ SemRelease(j)

LimRequest(r) == LimAcquire(r) \/ LimReject(r) \/ LimHandle(r) \/ LimRelease(r)

SemNext ==
    \/ SemMain
    \/ \E j \in SemJobIds : SemJob(j)
    \/ \E r \in RequestIds : LimRequest(r)

\* ------------------------------------- HTTP handler demo (syncOnce.go, second program)
\* the requests being served: the server runs handler once for each, at the
\* same time
HRequestIds == {"req1", "req2"}
\* result := make(chan string, 1)
HResultCap == 1
\* for i:=0; i<5; i++ in processRequest
ProcSteps == 5

HTTPInit ==
    /\ hctx = [r \in HRequestIds |-> "active"]
    /\ hpc = [r \in HRequestIds |-> "go"]
    /\ hResp = [r \in HRequestIds |-> "none"]
    /\ result = [r \in HRequestIds |-> <<>>]
    /\ ppc = [r \in HRequestIds |-> "unstarted"]
    /\ pI = [r \in HRequestIds |-> 0]
    /\ pExit = [r \in HRequestIds |-> "none"]

\* handler: result := make(chan string, 1); go processRequest(ctx, result)
HGo(r) ==
    /\ hpc[r] = "go"
    /\ ppc' = [ppc EXCEPT ![r] = "loop"]
    /\ hpc' = [hpc EXCEPT ![r] = "select"]
    /\ UNCHANGED <<hctx, hResp, result, pI, pExit>>
    /\ UNCHANGED notHTTP

\* the client disconnects or the request is cancelled while the handler runs:
\* the request context is cancelled
HClientGone(r) ==
    /\ hpc[r] # "returned"
    /\ hctx[r] = "active"
    /\ hctx' = [hctx EXCEPT ![r] = "cancelled"]
    /\ UNCHANGED <<hpc, hResp, result, ppc, pI, pExit>>
    /\ UNCHANGED notHTTP

\* handler: select case res := <-result: fmt.Fprintf(w, "Request completed: ...")
HRecvResult(r) ==
    /\ hpc[r] = "select"
    /\ CanRecv(result[r])
    /\ result' = [result EXCEPT ![r] = Tail(@)]
    /\ hResp' = [hResp EXCEPT ![r] = "completed"]
    /\ hpc' = [hpc EXCEPT ![r] = "return"]
    /\ UNCHANGED <<hctx, ppc, pI, pExit>>
    /\ UNCHANGED notHTTP

\* handler: select case <-ctx.Done(): http.Error(w, "Request cancelled", ...)
HCancelled(r) ==
    /\ hpc[r] = "select"
    /\ Done(hctx[r])
    /\ hResp' = [hResp EXCEPT ![r] = "cancelled"]
    /\ hpc' = [hpc EXCEPT ![r] = "return"]
    /\ UNCHANGED <<hctx, result, ppc, pI, pExit>>
    /\ UNCHANGED notHTTP

\* handler returns; the server cancels the context of the request
HReturn(r) ==
    /\ hpc[r] = "return"
    /\ hctx' = [hctx EXCEPT ![r] = "cancelled"]
    /\ hpc' = [hpc EXCEPT ![r] = "returned"]
    /\ UNCHANGED <<hResp, result, ppc, pI, pExit>>
    /\ UNCHANGED notHTTP

\* processRequest: select case <-ctx.Done(): return
ProcCancelled(r) ==
    /\ ppc[r] = "loop"
    /\ pI[r] < ProcSteps
    /\ Done(hctx[r])
    /\ pExit' = [pExit EXCEPT ![r] = "stopped"]
    /\ ppc' = [ppc EXCEPT ![r] = "done"]
    /\ UNCHANGED <<hctx, hpc, hResp, result, pI>>
    /\ UNCHANGED notHTTP

\* processRequest: select case <-time.After(100 * time.Millisecond): one step
\* of work, i++
ProcStep(r) ==
    /\ ppc[r] = "loop"
    /\ pI[r] < ProcSteps
    /\ pI' = [pI EXCEPT ![r] = @ + 1]
    /\ UNCHANGED <<hctx, hpc, hResp, result, ppc, pExit>>
    /\ UNCHANGED notHTTP

\* processRequest: the loop ends at i = 5
ProcLoopEnd(r) ==
    /\ ppc[r] = "loop"
    /\ pI[r] = ProcSteps
    /\ ppc' = [ppc EXCEPT ![r] = "send"]
    /\ UNCHANGED <<hctx, hpc, hResp, result, pI, pExit>>
    /\ UNCHANGED notHTTP

\* mutant: result is unbuffered, so the send needs the handler at its select
ProcSendUnbuffered(r) ==
    /\ ppc[r] = "send"
    /\ hpc[r] = "select"
    /\ hResp' = [hResp EXCEPT ![r] = "completed"]
    /\ hpc' = [hpc EXCEPT ![r] = "return"]
    /\ pExit' = [pExit EXCEPT ![r] = "sent"]
    /\ ppc' = [ppc EXCEPT ![r] = "done"]
    /\ UNCHANGED <<hctx, result, pI>>
    /\ UNCHANGED notHTTP

\* processRequest: result <- "Done!", and the function returns
ProcSend(r) ==
    /\ ppc[r] = "send"
    /\ CanSend(result[r], HResultCap)
    /\ result' = [result EXCEPT ![r] = Append(@, "Done!")]
    /\ pExit' = [pExit EXCEPT ![r] = "sent"]
    /\ ppc' = [ppc EXCEPT ![r] = "done"]
    /\ UNCHANGED <<hctx, hpc, hResp, pI>>
    /\ UNCHANGED notHTTP

Handler(r) == HGo(r) \/ HRecvResult(r) \/ HCancelled(r) \/ HReturn(r)

ProcessRequest(r) == ProcCancelled(r) \/ ProcStep(r) \/ ProcLoopEnd(r) \/ ProcSend(r)

HTTPNext ==
    \/ \E r \in HRequestIds : Handler(r)
    \/ \E r \in HRequestIds : HClientGone(r)
    \/ \E r \in HRequestIds : ProcessRequest(r)

\* ---------------------------------------------------------- specifications
\* every program starts in its initial state; a specification runs one of them
Init ==
    /\ WPInit /\ GSInit /\ PoolInit /\ SOInit /\ ROInit /\ RTInit
    /\ CASInit /\ SemInit /\ HTTPInit

SpecWP == Init /\ [][WPNext]_vars

\* The Go scheduler runs every runnable goroutine eventually: weak fairness
\* for the caller, the producer, the closer and each worker goroutine.
WorkerIds == 1 .. (NumWorkers + 1)
WPMain == SpawnWorker \/ SpawnDone \/ GoProducer \/ GoCloser \/ Collect \/ CollectEnd
WPProducer == ProducerSend \/ ProducerLoopEnd \/ ProducerClose
WPCloser == CloserWait \/ CloserClose
FairSpecWP ==
    /\ SpecWP
    /\ WF_vars(WPMain)
    /\ WF_vars(WPProducer)
    /\ WF_vars(WPCloser)
    /\ \A w \in WorkerIds : WF_vars(w \in Workers /\ WPWorker(w))

\* ------------------------------------------------------------ workerPool claims
Executing == {w \in Workers : wpc[w] \in {"process", "send"}}
Live == {w \in Workers : wpc[w] \notin {"done", "panic"}}
Sent == [k \in 1 .. prodI |-> k - 1]
Range(f) == {f[k] : k \in DOMAIN f}

\* C1: with N tasks submitted and no cancellation, every task is eventually
\* processed by some worker, and no task is ever processed more than once.
C1_EveryTaskExecutedExactlyOnce ==
    /\ [](\A t \in TaskIds : execCount[t] <= 1)
    /\ <>(\A t \in TaskIds : execCount[t] = 1)
C1_Witness ==
    /\ \A t \in TaskIds : execCount[t] = 1
    /\ mainPc = "returned"

\* C3: at most K = NumWorkers tasks are being processed at the same time.
C3_AtMostPoolSizeExecuting == Cardinality(Executing) <= NumWorkers
C3_Witness == Cardinality(Executing) = NumWorkers

\* C4: once the spawning loop is over exactly NumWorkers workers have been
\* started, and the number of live workers never exceeds NumWorkers.
C4_ExactlyPoolSizeWorkers ==
    /\ mainPc # "spawn" => Len(wpc) = NumWorkers
    /\ Cardinality(Live) <= NumWorkers
    /\ Len(wpc) <= NumWorkers
C4_Witness == mainPc = "collect" /\ Cardinality(Live) = NumWorkers

\* C5: the tasks buffer never holds more than TaskCap tasks, and while it is
\* full no send completes: the next step leaves the producer where it is.
C5_QueueBounded ==
    /\ [](Len(tasks) <= TaskCap)
    /\ [][Len(tasks) = TaskCap => prodI' = prodI /\ Len(tasks') <= TaskCap]_vars
C5_Witness == Len(tasks) = TaskCap /\ prodPc = "loop" /\ prodI < NumTasks

\* C6: the tasks of the single producer are received in the order they were
\* sent: what was received, followed by what is buffered, is what was sent.
C6_FifoOrder == dequeued \o tasks = Sent
C6_Witness == Len(dequeued) = NumTasks

\* C7: the tasks buffered at close(tasks) are not lost (each is still buffered
\* or has been received), and a worker's range loop has ended only when the
\* channel is closed and drained.
C7_CloseKeepsQueued ==
    /\ tasksClosed => Range(queuedAtClose) \subseteq Range(tasks) \cup Range(dequeued)
    /\ \A w \in Workers : wpc[w] \in {"defer", "done"} => tasksClosed /\ tasks = <<>>
C7_Witness ==
    /\ tasksClosed
    /\ queuedAtClose # <<>>
    /\ Range(queuedAtClose) \subseteq Range(dequeued)
    /\ \E w \in Workers : wpc[w] = "done"

\* C10: the WaitGroup counter is zero only when every started worker has
\* returned, and the closer is past wg.Wait only when all NumWorkers workers
\* have returned with no task in hand.
C10_BarrierZeroOnlyAfterWorkers ==
    /\ wg = 0 => \A w \in Workers : wpc[w] = "done"
    /\ closerPc \in {"close", "done"} =>
          /\ Len(wpc) = NumWorkers
          /\ \A w \in Workers : wpc[w] = "done" /\ wtask[w] = NoTask
C10_Witness == closerPc = "done" /\ resultsClosed

\* ------------------------------------------------ graceful shutdown claims
SpecGS == Init /\ [][GSNext]_vars

\* C8: the cancellation signal is only ever active or cancelled, it never
\* leaves cancelled, and a cancel() that has returned leaves it cancelled,
\* however many calls came before.
C8_CancelOneWayIdempotent ==
    /\ [](gsCtx \in {"active", "cancelled"})
    /\ [](cancelCalls >= 1 => gsCtx = "cancelled")
    /\ [][gsCtx = "cancelled" => gsCtx' = "cancelled"]_vars
C8_Witness == cancelCalls = 2 /\ gsCtx = "cancelled"

\* C12: main announces "All workers stopped" only in a state where every
\* started worker has returned from its run loop, its cleanup included.
\* time.Sleep gives a goroutine a lower bound on its pause and none on when
\* it runs again, so the 2 s of main against the 500 ms of a cleanup order
\* nothing.
C12_SuccessOnlyAfterAllReturned ==
    gsMainPc \in {"deferCancel", "exited"} =>
        \A w \in GSStarted : gpc[w] = "returned"

\* -------------------------------------------------------- worker pool claims
Spec == Init /\ [][Next]_vars

\* every worker goroutine that can run is eventually run, and so is the
\* controller's wait on the barrier
FairSpec ==
    /\ Spec
    /\ \A w \in 1 .. PoolSize : WF_vars(w \in PoolWorkers /\ PWorker(w))
    /\ WF_vars(BarrierReached)

\* the places an accepted job can be: with the caller still enqueueing it, in
\* the queue, or in the hands of a worker
HeldByCaller(i) == {c \in Callers : callJob[c] = i}
QueuedAt(i) == {k \in 1 .. Len(jobs) : jobs[k] = i}
HeldByWorker(i) == {w \in PoolWorkers : job[w] = i}
AllReturned == Len(jpc) = PoolSize /\ \A w \in 1 .. PoolSize : jpc[w] = "done"

\* C2: no job is handed out twice, to the same worker or to two workers, with
\* or without cancellation and closure: a job that was handed out is no longer
\* in the queue, and a job is never in two places at once.
C2_EachJobHandedOnce ==
    \A i \in JobIds :
        /\ handed[i] <= 1
        /\ handed[i] = 1 => QueuedAt(i) = {} /\ HeldByCaller(i) = {}
        /\ Cardinality(HeldByCaller(i)) + Cardinality(QueuedAt(i))
              + Cardinality(HeldByWorker(i)) <= 1
C2_Witness ==
    /\ Done(ctx)
    /\ jobsClosed
    /\ \A i \in JobIds : handed[i] = 1

\* C9: with fair scheduling and handlers that return, once the cancellation
\* signal has fired every worker returns from its run loop, also when jobs
\* are still pending in the queue.
C9_CancellationObservedByAll ==
    (Done(ctx) /\ ~crashed) ~> (AllReturned \/ crashed)
C9_Witness ==
    /\ Done(ctx)
    /\ AllReturned
    /\ ~jobsClosed
    /\ Len(jobs) > 0

\* a worker that has left its run loop, by a return or by a panic
Exited(w) == jpc[w] \in {"done", "panicked"}

\* C11: each worker decrements the completion barrier exactly once, on its way
\* out of the run loop, whichever way the loop ends: once the pool is started
\* the barrier counts the workers that have not left yet, it never grows, it
\* never goes below zero, and it changes only in a step in which workers leave.
C11_BarrierDecrementedOncePerWorker ==
    /\ [](poolWg >= 0)
    /\ [](poolState # "Created" =>
            poolWg = Cardinality({w \in PoolWorkers : ~Exited(w)}))
    /\ [][poolState # "Created" =>
            /\ poolWg' <= poolWg
            /\ poolWg - poolWg' =
                  Cardinality({w \in PoolWorkers : ~Exited(w) /\ jpc'[w] \in {"done", "panicked"}})
            /\ \A w \in PoolWorkers : Exited(w) => jpc'[w] = jpc[w]]_vars
C11_Witness ==
    /\ AllReturned
    /\ jobsClosed
    /\ poolWg = 0
    /\ \E i \in JobIds : handed[i] = 1

C14_SubmitRejectedWhenNotRunning ==
    /\ [][\A c \in Callers :
            callPc[c] = "idle" /\ callPc'[c] = "enqueue" => poolState = "Running"]_vars
    /\ [][lastRet' = Ret("Submit", "PoolNotRunning") /\ lastRet' # lastRet =>
            /\ poolState # "Running"
            /\ UNCHANGED <<poolState, ctx, jobs, jobsClosed, poolWg, jpc, job, jobCtx,
                           callPc, callJob, nextId, handed, ran>>]_vars
    /\ [][poolState # "Running" => nextId' = nextId]_vars
C14_Witness ==
    /\ lastRet = Ret("Submit", "PoolNotRunning")
    /\ poolState = "Draining"
    /\ Len(jobs) < QueueCap
    /\ \E w \in PoolWorkers : jpc[w] = "select"

\* C15: a Start in any state but Created returns AlreadyStarted and changes
\* nothing: no worker is added, and the pool state, the signal, the queue and
\* the barrier are as before.
C15_SecondStartAlreadyStarted ==
    /\ [][lastRet'[1] = "Start" /\ lastRet' # lastRet /\ poolState # "Created" =>
            /\ lastRet' = Ret("Start", "AlreadyStarted")
            /\ UNCHANGED <<poolState, ctx, jobs, jobsClosed, poolWg, jpc, job, jobCtx,
                           callPc, callJob, nextId, handed, ran>>]_vars
    /\ [][poolState # "Created" => Len(jpc') = PoolSize /\ Len(jpc) = PoolSize]_vars
C15_Witness ==
    /\ lastRet = Ret("Start", "AlreadyStarted")
    /\ poolState = "Running"
    /\ Len(jobs) > 0

\* the place of a pool state in Created, Running, Draining, Stopped
StateRank(s) ==
    CASE s = "Created" -> 0
      [] s = "Running" -> 1
      [] s = "Draining" -> 2
      [] s = "Stopped" -> 3

\* C16: the pool state only moves forward along Created, Running, Draining,
\* Stopped, one place at a time; it never skips a state and never goes back.
C16_StateOnlyForward ==
    /\ [](poolState \in {"Created", "Running", "Draining", "Stopped"})
    /\ [][poolState' # poolState =>
            StateRank(poolState') = StateRank(poolState) + 1]_vars
C16_Witness ==
    /\ poolState = "Stopped"
    /\ lastRet = Ret("Start", "AlreadyStarted")

\* a caller blocked in the select of Enqueue is woken once one of its cases
\* can proceed
FairSpecCallers ==
    /\ FairSpec
    /\ \A c \in Callers : WF_vars(EnqueueSend(c) \/ EnqueueCancelled(c))

\* C17: once the cancellation signal has fired, a caller blocked in Enqueue
\* on a full queue eventually gets its answer, and if the queue is still full
\* when it does, the answer is PoolShuttingDown and the queue is as before.
C17_BlockedEnqueueReturnsOnCancel ==
    /\ \A c \in Callers :
          (callPc[c] = "blocked" /\ Done(ctx)) ~> (callPc[c] = "idle")
    /\ [][\A c \in Callers :
            InEnqueue(c) /\ callPc'[c] = "idle" /\ ~CanSend(jobs, QueueCap) =>
                lastRet' = Ret("Submit", "PoolShuttingDown") /\ jobs' = jobs]_vars

\* a task that was accepted into the queue: it is in it or was taken out of it
Accepted(i) == QueuedAt(i) # {} \/ handed[i] >= 1
\* the reports of one of the given kinds that were emitted for task i
ReportsOf(i, kinds) == {r \in reports : r.id = i /\ r.kind \in kinds}

\* C18: when the pool is Stopped every accepted task has exactly one outcome:
\* its handler was called, or it was reported as cancelled or dropped; none is
\* left in the queue or skipped by a worker without a report.
C18_EveryAcceptedTaskHasOneOutcome ==
    poolState = "Stopped" =>
        \A i \in JobIds :
            Accepted(i) =>
                (IF i \in ran THEN 1 ELSE 0)
                    + Cardinality(ReportsOf(i, {"cancelled", "dropped"})) = 1

\* C19: a step in which a handler faults, by an error or by a panic, takes
\* its worker back to the select of the run loop and leaves the barrier and
\* the process as they were.
C19_FaultDoesNotEndWorker ==
    [][\A w \in PoolWorkers :
          jpc[w] = "handler" /\ job[w] \in faulted' \ faulted =>
              /\ jpc'[w] = "select"
              /\ poolWg' = poolWg
              /\ ~crashed']_vars

\* C20: every task whose handler has faulted has exactly one TaskFailed
\* report.
C20_EveryFaultReportedOnce ==
    \A i \in faulted : Cardinality(ReportsOf(i, {"TaskFailed"})) = 1

FairSpecDraining == FairSpec

C23_CancellationReachesJobContexts ==
    /\ [](Done(ctx) =>
            \A w \in PoolWorkers :
                jpc[w] = "handler" => jobCtx[w] \in {"cancelled", "timedOut"})
    /\ [][ctx' # ctx => poolState = "Running" /\ poolState' = "Draining"]_vars
    /\ [][ctx' = ctx /\ DOMAIN jobCtx' = DOMAIN jobCtx =>
            Cardinality({w \in PoolWorkers : jobCtx'[w] # jobCtx[w]}) <= 1]_vars
C23_Witness ==
    /\ Done(ctx)
    /\ \E w \in PoolWorkers : jpc[w] = "handler" /\ jobCtx[w] = "cancelled"
    /\ \E w \in PoolWorkers : jpc[w] = "handler" /\ jobCtx[w] = "timedOut"

\* C24: a worker leaves its run loop only in a step taken with the
\* cancellation signal fired or with the queue closed and empty.
C24_LoopEndsOnlyOnCancelOrClose ==
    [][\A w \in PoolWorkers :
          ~Exited(w) /\ jpc'[w] \in {"done", "panicked"} =>
              Done(ctx) \/ RecvClosed(jobs, jobsClosed)]_vars

\* C25: with a job in the queue and the cancellation signal fired, a worker
\* at its select can take either case: return and leave the job in the
\* queue, or receive the job and run its handler.
C25_BothSelectCasesEnabled ==
    \A w \in PoolWorkers :
        (~crashed /\ jpc[w] = "select" /\ Done(ctx) /\ CanRecv(jobs)) =>
            /\ ENABLED (PWorkerCancelled(w) /\ jobs' = jobs /\ jpc'[w] = "done")
            /\ ENABLED (PWorkerRecv(w, TRUE) /\ jpc'[w] = "handler"
                                             /\ job'[w] = Head(jobs))

\* a worker has returned on the signal with a job left in the queue, and
\* another one is running a job it received under a fired signal
C25_Witness ==
    /\ Done(ctx) /\ ~crashed
    /\ \E w \in PoolWorkers : jpc[w] = "done" /\ Len(jobs) > 0
    /\ \E w \in PoolWorkers : jpc[w] = "select"

\* ------------------------------------------------------- sync.Once claims
SpecOnce == Init /\ [][SONext]_vars

\* the goroutines that have returned from once.Do(initialize)
ReturnedFromDo == {g \in Goroutines : opc[g] \in {"println", "wgDone", "release", "finished"}}

\* C26: with one sync.Once shared by the goroutines, initialize runs at most
\* once, it has run exactly once when a goroutine has returned from once.Do,
\* and every such goroutine reads (and prints) initialized = true.
C26_InitializeOnceAndVisible ==
    /\ initCalls <= 1
    /\ ReturnedFromDo # {} => initCalls = 1 /\ initialized
    /\ \A g \in Goroutines : seen[g] \in {"none", "true"}

\* initialize has run and every goroutine has returned from once.Do and printed
C26_Witness ==
    /\ initCalls = 1
    /\ \A g \in Goroutines : seen[g] = "true"

\* C27: main prints "All goroutines completed" only after every goroutine
\* of the loop has finished.
C27_AnnouncedOnlyAfterAllFinished ==
    soMainPc \in {"printed", "exited"} => Unfinished = {}

\* ---------------------------------------------------- ResilientOnce claims
SpecResilient == Init /\ [][RONext]_vars

\* the goroutines whose call of Do has returned
RoReturned == {c \in ResGoroutines : roPc[c] = "returned"}

\* C28: ResilientOnce.Do invokes the function at most once, also when the
\* invocation returned an error or panicked: no step invokes it again.
C28_InvokedAtMostOnce ==
    /\ roCalls <= 1
    /\ roOutcome # "none" => roCalls = 1
    /\ RoReturned # {} => roCalls = 1 /\ roDone = 1

\* the invocation failed and every goroutine's Do has returned
C28_Witness ==
    /\ roOutcome = "err"
    /\ roCalls = 1
    /\ RoReturned = ResGoroutines

\* C29: every call of Do returns what the single invocation did: nil when it
\* returned nil, an error when it returned an error or panicked; no panic
\* leaves Do.
C29_EveryCallReturnsTheOutcome ==
    /\ \A c \in RoReturned :
          /\ roOutcome # "none"
          /\ roRet[c] = (IF roOutcome = "nil" THEN "nil" ELSE "error")
    /\ \A c \in ResGoroutines : roPc[c] # "panicked"

\* the invocation panicked and every goroutine's Do returned an error
C29_Witness ==
    /\ roOutcome = "panic"
    /\ \A c \in ResGoroutines : roPc[c] = "returned" /\ roRet[c] = "error"

\* -------------------------------------------------------- RetryOnce claims
SpecRetry == Init /\ [][RTNext]_vars

\* C30: once an invocation by RetryOnce.Do has succeeded, initialized stays
\* true, the function is not invoked again, every Do that returns from then
\* on returns nil, and at most one invocation has ever succeeded.
C30_SuccessIsFinal ==
    /\ [](rtSucc <= 1 /\ (rtInitialized <=> rtSucc = 1))
    /\ [][rtInitialized =>
            /\ rtInitialized'
            /\ rtCalls' = rtCalls
            /\ \A c \in RetryGoroutines :
                  rtRet'[c] # rtRet[c] => rtRet'[c] = "nil"]_vars
    /\ [](rtInitialized =>
            \A c \in RetryGoroutines :
                rtPc[c] = "returned" /\ rtRet[c] = "error" => rtAttempt[c] = maxRetries)

\* a Do failed all its attempts, a later one succeeded, and the one after it
\* returned nil
C30_Witness ==
    /\ rtInitialized
    /\ \E c \in RetryGoroutines : rtPc[c] = "returned" /\ rtRet[c] = "error"
    /\ \E c \in RetryGoroutines :
          rtPc[c] = "returned" /\ rtRet[c] = "nil" /\ rtInvoked[c] = 0 /\ rtCalls > maxRetries

\* C31: a Do that finds the RetryOnce uninitialised invokes the function at
\* most maxRetries times, invokes it no more once an attempt has returned nil,
\* counts a panicking attempt as a failure (no panic leaves Do), and returns
\* an error exactly when maxRetries attempts were made and all of them failed;
\* with maxRetries = 0 that is without any invocation.
C31_OneRoundOfAtMostMaxRetries ==
    /\ [](\A c \in RetryGoroutines :
            /\ rtInvoked[c] <= maxRetries
            /\ rtPc[c] # "panicked"
            /\ rtRet[c] = "nil" /\ rtInvoked[c] > 0 => rtInvoked[c] = rtAttempt[c] + 1
            /\ rtRet[c] # "none" =>
                  (rtRet[c] = "error" <=>
                      rtAttempt[c] = maxRetries /\ rtInvoked[c] = maxRetries))
    /\ [][\A c \in RetryGoroutines :
            rtRet[c] # "none" => rtInvoked'[c] = rtInvoked[c]]_vars

\* one Do made all its attempts and returned the error; another stopped at
\* the first nil, which came after a failed attempt
C31_Witness ==
    /\ maxRetries = MaxRetries
    /\ \E c \in RetryGoroutines :
          rtPc[c] = "returned" /\ rtRet[c] = "error" /\ rtInvoked[c] = maxRetries
    /\ \E c \in RetryGoroutines :
          rtPc[c] = "returned" /\ rtRet[c] = "nil" /\ rtInvoked[c] = 2

\* C32: a Do that returns the error of an exhausted round leaves the
\* RetryOnce uninitialised; a Do that comes after it starts its own round
\* at attempt 0, and an attempt of that round can return nil and initialise.
C32_FailureIsNotPermanent ==
    /\ [][\A c \in RetryGoroutines :
            rtRet[c] = "none" /\ rtRet'[c] = "error" => ~rtInitialized']_vars
    /\ [](\A c \in RetryGoroutines :
            /\ rtPc[c] = "check" /\ ~rtInitialized =>
                  /\ rtAttempt[c] = 0 /\ rtInvoked[c] = 0
                  /\ ENABLED (RtCheck(c) /\ rtPc'[c] = "loop")
            /\ rtPc[c] = "f" => ENABLED (RtAttempt(c, "nil") /\ rtInitialized'))

\* a Do returned the error of an exhausted round, and a later Do succeeded
C32_Witness ==
    /\ maxRetries > 0
    /\ \E c \in RetryGoroutines : rtPc[c] = "returned" /\ rtRet[c] = "error"
    /\ \E c \in RetryGoroutines :
          rtPc[c] = "returned" /\ rtRet[c] = "nil" /\ rtInvoked[c] > 0

\* C33: the function runs in at most one goroutine at a time; a goroutine is
\* inside a round only with r.mu held, so one that arrives during a round
\* cannot enter before the round is over; and of the goroutines whose Do
\* returned nil at most one invoked the function.
C33_RoundsDoNotOverlap ==
    /\ Cardinality({c \in RetryGoroutines : rtPc[c] = "f"}) <= 1
    /\ Cardinality(InRound) <= 1
    /\ \A c \in InRound : rtMu = c
    /\ InRound # {} => \A c \in RetryGoroutines : ~ENABLED RtLock(c)
    /\ Cardinality({c \in RetryGoroutines : rtRet[c] = "nil" /\ rtInvoked[c] > 0}) <= 1
    /\ \A c \in RetryGoroutines : rtInvoked[c] > 0 => rtRet[c] # "none" \/ c \in InRound

\* a goroutine is retrying (the function runs for the second time in its
\* round) while the other goroutines wait for r.mu
C33_Witness ==
    /\ \E c \in RetryGoroutines : rtPc[c] = "f" /\ rtAttempt[c] = 1
    /\ Cardinality({c \in RetryGoroutines : rtPc[c] = "lock"}) = RetryCallers - 1

\* ------------------------------------------------- workerPool termination
\* workerPool() is over: the producer, the closer and every worker have
\* finished, and the collecting loop has printed one result for every task
WPFinished ==
    /\ mainPc = "returned"
    /\ prodPc = "done"
    /\ closerPc = "done"
    /\ Len(wpc) = NumWorkers
    /\ \A w \in Workers : wpc[w] = "done"
    /\ \A t \in TaskIds : collected[t] = 1

\* C37: under fair scheduling workerPool() always finishes, with the
\* producer, the workers and the closer done and exactly one result collected
\* per task; no result is ever collected twice, and no worker ever sends on
\* results after close(results).
C37_WorkerPoolTerminates ==
    /\ <>WPFinished
    /\ [](\A t \in TaskIds : collected[t] <= 1)
    /\ [](\A w \in Workers : wpc[w] # "panic")
    /\ [](resultsClosed => \A w \in Workers : wpc[w] = "done")

\* workerPool() has returned with both channels drained and the barrier at zero
C37_Witness ==
    /\ WPFinished
    /\ tasks = <<>> /\ results = <<>>
    /\ wg = 0

\* ------------------------------------------------------ CAS-loop claims
SpecCAS == Init /\ [][CASNext]_vars

\* The Go scheduler runs every runnable goroutine eventually: weak fairness
\* for main and for each goroutine of the loop.
FairSpecCAS ==
    /\ SpecCAS
    /\ WF_vars(CasMain)
    /\ \A g \in CasIds : WF_vars(CasGoroutine(g))

\* every goroutine of the loop has finished
CasAllDone == \A g \in CasIds : cpc[g] = "done"

\* C34: when all goroutines of the CAS loop have finished the counter equals
\* their number (and that is what main prints); before that the counter is
\* the number of goroutines whose compare-and-swap has succeeded; and with
\* fair scheduling every goroutine leaves its loop and main returns.
C34_NoIncrementLost ==
    /\ [](counter = Cardinality({g \in CasIds : cpc[g] \in {"wgDone", "done"}}))
    /\ [](CasAllDone => counter = CasGoroutines)
    /\ [](casPrinted # NotPrinted => casPrinted = CasGoroutines)
    /\ <>(CasAllDone /\ casMainPc = "returned")

\* the last goroutine is at its compare-and-swap with an old value that the
\* others have overwritten since: it has to retry
C34_Witness ==
    /\ counter = CasGoroutines - 1
    /\ \E g \in CasIds : cpc[g] = "cas" /\ old[g] < counter

\* ------------------------------------------------------ semaphore claims
SpecSem == Init /\ [][SemNext]_vars

FairSpecSem ==
    /\ SpecSem
    /\ WF_vars(SemMain)
    /\ \A j \in SemJobIds : WF_vars(SemJob(j))

\* C35: the jobs being processed never outnumber the slots of sem and the
\* requests being handled never outnumber the slots of limiter; a slot is
\* held exactly by the jobs and requests in progress, and a job or request
\* that has ended has acquired once and released once (a rejected request
\* neither).
C35_SemaphoreBoundsConcurrency ==
    /\ sem <= MaxConcurrent
    /\ Cardinality(SemProcessing) <= MaxConcurrent
    /\ semMainPc # "fill" /\ semMainPc # "done" =>
          sem = Cardinality(SemProcessing) + (IF semMainPc = "go" THEN 1 ELSE 0)
    /\ \A j \in SemJobIds :
          /\ semRel[j] <= semAcq[j] /\ semAcq[j] <= 1
          /\ spc[j] = "done" => semAcq[j] = 1 /\ semRel[j] = 1
          /\ j \in SemProcessing => semAcq[j] = 1 /\ semRel[j] = 0
    /\ limiter <= LimiterCap
    /\ limiter = Cardinality(LimProcessing)
    /\ \A r \in RequestIds :
          /\ limRel[r] <= limAcq[r] /\ limAcq[r] <= 1
          /\ lpc[r] = "done" => limAcq[r] = 1 /\ limRel[r] = 1
          /\ lpc[r] = "rejected" => limAcq[r] = 0 /\ limRel[r] = 0
          /\ r \in LimProcessing => limAcq[r] = 1 /\ limRel[r] = 0

\* sem is full of running jobs with the range loop waiting to send, and the
\* limiter is full and has rejected a request
C35_Witness ==
    /\ Cardinality(SemProcessing) = MaxConcurrent
    /\ semMainPc = "range" /\ semNext < SemJobs
    /\ Cardinality(LimProcessing) = LimiterCap
    /\ \E r \in RequestIds : lpc[r] = "rejected"

\* C36: the final loop is over only when every job goroutine has been
\* started, has finished and has released its slot; and with fair scheduling
\* and jobs that finish the loop does get there.
C36_FillLoopWaitsForAllJobs ==
    /\ [](semMainPc = "done" =>
            /\ semNext = SemJobs
            /\ \A j \in SemJobIds : spc[j] = "done" /\ semRel[j] = 1
            /\ sem = MaxConcurrent /\ semFill = MaxConcurrent)
    /\ [](semMainPc = "fill" => sem = Cardinality(SemProcessing) + semFill)
    /\ <>(semMainPc = "done")

\* the final loop has put some of its elements into sem and waits for a job
\* that is still being processed
C36_Witness ==
    /\ semMainPc = "fill"
    /\ semFill > 0 /\ semFill < MaxConcurrent
    /\ sem = MaxConcurrent
    /\ SemProcessing # {}

\* --------------------------------------------------- HTTP handler claims
SpecHTTP == Init /\ [][HTTPNext]_vars

\* weak fairness for each handler and each processRequest goroutine; a timer
\* made by time.After fires, so the step of work is part of it. Nothing is
\* assumed about the client.
FairSpecHTTP ==
    /\ SpecHTTP
    /\ \A r \in HRequestIds : WF_vars(Handler(r)) /\ WF_vars(ProcessRequest(r))

\* C38: processRequest ends only by returning on the cancelled context or
\* by sending its result; at its send the channel has room, whatever the
\* handler has done; and with fair scheduling it always ends.
C38_ProcessRequestTerminates ==
    /\ [](\A r \in HRequestIds :
            /\ ppc[r] = "send" => result[r] = <<>> /\ ENABLED ProcSend(r)
            /\ ppc[r] = "done" => pExit[r] \in {"stopped", "sent"}
            /\ pExit[r] = "stopped" => Done(hctx[r])
            /\ Len(result[r]) <= HResultCap)
    /\ <>(\A r \in HRequestIds : ppc[r] = "done")

\* a handler has taken the ctx.Done() branch and returned, and processRequest
\* has delivered a result that nobody will receive
C38_Witness ==
    \E r \in HRequestIds :
        /\ hpc[r] = "returned" /\ hResp[r] = "cancelled"
        /\ ppc[r] = "done" /\ pExit[r] = "sent"
        /\ Len(result[r]) = 1

====
